---- MODULE Spec2Model ----
(***************************************************************************)
(* Model of the slopinator-9000 pipeline.                                  *)
(*                                                                         *)
(*   IdeaJudge                   src/src/oracles/idea-judge.ts             *)
(*   TrendScout                  src/src/oracles/trend-scout.ts            *)
(*   PiAgent.execute             src/src/services/twitter-client.ts        *)
(*   TimeBudget                  src/src/utils/time-budget.ts              *)
(*   StateManager                src/src/utils/state-manager.ts            *)
(*   Slopinator9000Orchestrator  src/unnamed/part_003                      *)
(*   IdeaGenerator               src/unnamed/part_003                      *)
(*   ResearchMaster              src/unnamed/part_002                      *)
(*   BrowserAutomation           src/unnamed/part_001                      *)
(*   ImplementationMaster        src/src/oracles/implementation-master.ts  *)
(*                                                                         *)
(* Eleven specifications share the variables:                              *)
(*   SpecJudge   one judge() call, on every bounded collaborator reply     *)
(*   SpecFilter  one filterIdeas() call, on every bounded idea list        *)
(*   SpecScout   one scoutTrends() call, on every bounded search outcome   *)
(*   SpecStore   the save and load calls of one StateManager               *)
(*   SpecBudget  one TimeBudget.run call, awaited by phase 1               *)
(*   Spec        one run() of the orchestrator                             *)
(*   SpecLive    Spec under weak fairness of the scheduled steps           *)
(*   SpecDecision   one synthesiseDecision() call, on every bounded reply  *)
(*   SpecGenerator  one generateOriginalIdeas() call                       *)
(*   SpecImplement  one implement() call                                   *)
(*   SpecResearch   the research() calls of one ResearchMaster             *)
(***************************************************************************)
EXTENDS Integers, Sequences, FiniteSets, TLC

VARIABLES
    jcall,      \* the judge() call under test: its input and its outcome
    filter,     \* the filterIdeas() call in progress (locals of the loop)
    calls,      \* log of the collaborator / oracle calls made so far
    pc,         \* where run() stands
    state,      \* this.state, the OrchestratorState
    config,     \* config.system: dryRun, skipGithub, skipTwitter
    round,      \* loop variable of phase2b_JudgeIdeas
    regen,      \* locals of the regenerateFromFeedback() call in progress
    rIdx,       \* position of the for-of loop of phase3_ResearchIdeas
    abandoned,  \* operations whose TimeBudget expired and that still run
    snapshot,   \* the state file of StateManager and the last save call
    result,     \* the RunResult, once run() has returned
    tb,         \* the TimeBudget.run call under test: clock, timer, promise
    scout,      \* the scoutTrends() call under test: options and locals
    store,      \* the StateManager under test: its saves and its last load
    decision,   \* the synthesiseDecision() call under test
    researcher, \* a ResearchMaster, its browser and its research() calls
    implementer, \* the implement() call under test
    generator   \* the generateOriginalIdeas() call under test

runVars == <<pc, state, config, round, regen, rIdx, abandoned, snapshot,
             result, tb>>

oracleVars == <<decision, researcher, implementer, generator>>

orchVars == <<runVars, scout, store, oracleVars>>

vars == <<jcall, filter, calls, pc, state, config, round, regen, rIdx,
          abandoned, snapshot, result, tb, scout, store, decision,
          researcher, implementer, generator>>

\* ------------------------------------------------------------------------
\* Bounds of the model
\* ------------------------------------------------------------------------

\* longest collaborator reply, in segments
MaxSegs == 2

\* most ideas one generator call returns
MaxIdeas == 2

\* ------------------------------------------------------------------------
\* Optional values (an unset field of the TypeScript state is None)
\* ------------------------------------------------------------------------

None == <<>>

Some(v) == <<v>>

IsSet(o) == Len(o) = 1

Get(o) == o[1]

Range(seq) == {seq[k] : k \in 1..Len(seq)}

Min(a, b) == IF a < b THEN a ELSE b

Max(a, b) == IF a > b THEN a ELSE b

\* No call of the oracle is under test.
NoDecision == [status |-> "idle"]

NoResearcher == [status |-> "idle"]

NoImplementer == [status |-> "idle"]

NoGenerator == [status |-> "idle"]

OraclesIdle ==
    /\ decision = NoDecision
    /\ researcher = NoResearcher
    /\ implementer = NoImplementer
    /\ generator = NoGenerator

\* ------------------------------------------------------------------------
\* JSON values of a judge reply
\* ------------------------------------------------------------------------

Levels == {"none", "low", "medium", "high"}

AxisNames == {"problemDivergence", "technicalNovelty", "audienceShift",
              "addedValue", "runnability"}

\* What the reply's JSON object may hold for one axis: a valid level, a
\* string that is no level ("HIGH"), or nothing at all.
AxisJson == Levels \cup {"HIGH", "absent"}

\* The numbers tried for differentiationScore: below and above the clamp
\* and around every approval boundary (50, 50-5, 50-10).
ScoreNumbers == {-5, 0, 39, 40, 44, 45, 49, 50, 100, 150}

\* differentiationScore of the reply: a JSON number, a JSON string, absent.
ScoreJson == [t : {"number"}, v : ScoreNumbers]
             \cup {[t |-> "string", v |-> 0], [t |-> "absent", v |-> 0]}

\* axes of the reply: a JSON object of axis values, a non-object, absent.
AxesJson == [t : {"object"}, v : [AxisNames -> AxisJson]]
            \cup {[t |-> "string", v |-> [a \in AxisNames |-> "absent"]],
                  [t |-> "absent", v |-> [a \in AxisNames |-> "absent"]]}

\* Every JSON object a reply may carry.
JsonObjects == [differentiationScore : ScoreJson, axes : AxesJson]

EmptyObject == [differentiationScore |-> [t |-> "absent", v |-> 0],
                axes |-> [t |-> "absent", v |-> [a \in AxisNames |-> "absent"]]]

\* A reply is a sequence of segments: "txt" is prose without braces, "open"
\* is a lone {, "close" is a lone }, and "obj" is the text of one complete
\* JSON object, whose content is the reply's obj.
SegKinds == {"txt", "open", "close", "obj"}

Shapes == UNION {[1..n -> SegKinds] : n \in 0..MaxSegs}

\* ------------------------------------------------------------------------
\* PiAgent.execute: how the collaborator call ended, and the PiResult
\* ------------------------------------------------------------------------

PiEndings == {"done", "agentError", "timeout", "exception"}

piExecute_TimeoutSucceeds(how, text) ==
    [success |-> how \in {"done", "timeout"}, output |-> text]

piExecute(how, text) ==
    [success |-> how = "done", output |-> text]

\* ------------------------------------------------------------------------
\* IdeaJudge
\* ------------------------------------------------------------------------

MIN_DIFFERENTIATION_SCORE == 50

MIN_STRONG_AXES == 2

failedVerdict(reason) ==
    [approved |-> FALSE,
     differentiationScore |-> 0,
     axes |-> [a \in AxisNames |-> "none"],
     reasoning |-> reason]

\* raw.match(/\{[\s\S]*\}/): greedy, from the first { to the last }.
HasOpen(k) == k \in {"open", "obj"}

HasClose(k) == k \in {"close", "obj"}

jsonMatch(segs) ==
    LET opens == {i \in 1..Len(segs) : HasOpen(segs[i])}
        closes == {i \in 1..Len(segs) : HasClose(segs[i])}
        first == CHOOSE i \in opens : \A j \in opens : i <= j
        last == CHOOSE i \in closes : \A j \in closes : j <= i
    IN IF opens = {} \/ closes = {} THEN None
       ELSE IF last < first THEN None
       ELSE Some(SubSeq(segs, first, last))

\* JSON.parse of the matched text: one complete object parses to itself,
\* "{" directly followed by "}" is the empty object, anything else (two
\* objects, prose between braces, a brace around an object) is a SyntaxError.
jsonParse(m, obj) ==
    IF m = <<"obj">> THEN Some(obj)
    ELSE IF m = <<"open", "close">> THEN Some(EmptyObject)
    ELSE None

parseLevel(v) == IF v \in Levels THEN v ELSE "none"

clampScore(s) == IF s.t = "number" THEN Max(0, Min(100, s.v)) ELSE 0

runnabilityBonus_Flat(axes) == 0

runnabilityBonus(axes) ==
    IF axes["runnability"] = "high" THEN 10
    ELSE IF axes["runnability"] = "medium" THEN 5
    ELSE 0

strongAxes(axes) == Cardinality({a \in AxisNames : axes[a] \in {"medium", "high"}})

isApproved(adjustedScore, strong) ==
    adjustedScore >= MIN_DIFFERENTIATION_SCORE /\ strong >= MIN_STRONG_AXES

parseVerdict(raw) ==
    LET m == jsonMatch(raw.segs)
    IN IF ~IsSet(m) THEN failedVerdict("Could not parse LLM response")
       ELSE LET p == jsonParse(Get(m), raw.obj)
            IN IF ~IsSet(p) THEN failedVerdict("JSON parse error")
               ELSE LET parsed == Get(p)
                        score == clampScore(parsed.differentiationScore)
                        axes == [a \in AxisNames |-> parseLevel(parsed.axes.v[a])]
                        adjustedScore == Min(100, score + runnabilityBonus(axes))
                    IN [approved |-> isApproved(adjustedScore, strongAxes(axes)),
                        differentiationScore |-> score,
                        axes |-> axes,
                        reasoning |-> "reply"]

\* An idea as the judge sees it. id is the object's identity; originalRepo is
\* the "owner/repo" key the generator wrote; wellTyped says whether the
\* object really has the array fields (dependencies, coreFeatures) its
\* TypeScript type promises: ideas are JSON.parse results cast unchecked.
Idea(id, repo, typed) == [id |-> id, originalRepo |-> repo, wellTyped |-> typed]

\* buildJudgePrompt calls idea.coreFeatures.map and idea.dependencies.join:
\* a TypeError when the idea lacks those arrays.
buildJudgePromptThrows(idea) == ~idea.wellTyped

\* judge(idea, sourceRepo), given how the collaborator call ends and what
\* text it produced. The prompt is built before, and outside, any try block.
judge(idea, how, text) ==
    IF buildJudgePromptThrows(idea)
    THEN [threw |-> TRUE, verdict |-> None]
    ELSE LET piResult == piExecute(how, text)
         IN IF ~piResult.success \/ piResult.output.segs = <<>>
            THEN [threw |-> FALSE,
                  verdict |-> Some(failedVerdict("LLM evaluation failed"))]
            ELSE [threw |-> FALSE, verdict |-> Some(parseVerdict(piResult.output))]

\* ------------------------------------------------------------------------
\* IdeaJudge.filterIdeas
\* ------------------------------------------------------------------------

\* "owner/repo" keys of the repositories a scout may return, and one key no
\* scout returns (the generator's originalRepo is free text).
RepoKeys == {"o/r1", "o/r2"}

UnknownRepo == "o/unknown"

ApprovingObject ==
    [differentiationScore |-> [t |-> "number", v |-> 100],
     axes |-> [t |-> "object",
               v |-> [a \in AxisNames |->
                        IF a \in {"problemDivergence", "runnability"}
                        THEN "high" ELSE "low"]]]

RejectingObject ==
    [differentiationScore |-> [t |-> "number", v |-> 100],
     axes |-> [t |-> "object",
               v |-> [a \in AxisNames |->
                        IF a = "problemDivergence" THEN "high" ELSE "low"]]]

\* The collaborator answers tried for each judge call of a batch: a reply
\* that passes the acceptance rule and one that fails it.
SampleAnswers ==
    {[how |-> "done", raw |-> [segs |-> <<"obj">>, obj |-> ApprovingObject]],
     [how |-> "done", raw |-> [segs |-> <<"txt", "obj">>, obj |-> RejectingObject]]}

IdeaRepos == RepoKeys \cup {UnknownRepo}

\* Lists of n distinct idea objects, numbered from `first`.
IdeaLists(first, n) ==
    {[k \in 1..n |-> Idea(first + k - 1, r[k], t[k])] :
        r \in [1..n -> IdeaRepos], t \in [1..n -> BOOLEAN]}

IdeaListsUpTo(first, max) == UNION {IdeaLists(first, n) : n \in 0..max}

\* The ideas a generator call may return: an idea of either scouted repo or
\* of a repo nobody scouted, and an idea that lacks its array fields.
GeneratedKinds ==
    {Idea(0, r, TRUE) : r \in IdeaRepos} \cup {Idea(0, "o/r1", FALSE)}

GeneratedLists ==
    UNION {{[k \in 1..n |-> [kind[k] EXCEPT !.id = k]] :
              kind \in [1..n -> GeneratedKinds]} : n \in 0..MaxIdeas}

\* The locals of a filterIdeas(ideas, sourceRepos) call at its start.
filterIdeasCall(ideas, repoKeys) ==
    [ideas |-> ideas, repoKeys |-> repoKeys, i |-> 1,
     approved |-> <<>>, rejected |-> <<>>, inflight |-> <<>>,
     status |-> IF ideas = <<>> THEN "returned" ELSE "running"]

pushApproved_AlsoRejects(f, idea) ==
    [f EXCEPT !.approved = Append(@, idea),
              !.rejected = Append(@, [idea |-> idea, verdict |-> failedVerdict("")])]

pushApproved(f, idea) == [f EXCEPT !.approved = Append(@, idea)]

pushRejected(f, idea, verdict) ==
    [f EXCEPT !.rejected = Append(@, [idea |-> idea, verdict |-> verdict])]

repoMissing_Never(f, idea) == FALSE

\* !sourceRepos.get(idea.originalRepo)
repoMissing(f, idea) == idea.originalRepo \notin f.repoKeys

\* The loop is over once it has taken every idea and no judge call is
\* pending.
loopStatus(f) ==
    IF f.i > Len(f.ideas) /\ f.inflight = <<>> THEN "returned" ELSE "running"

\* The for-of loop takes its next idea.
advance(f) ==
    LET g == [f EXCEPT !.i = @ + 1]
    IN [g EXCEPT !.status = loopStatus(g)]

mayStartJudge_NoAwait(f) == TRUE

\* const verdict = await this.judge(idea, repo): the loop takes no idea
\* while a judge call is pending.
mayStartJudge(f) == f.inflight = <<>>

\* this.judge(idea, repo) is called for the idea the loop has taken.
startJudge(f, idea) ==
    [f EXCEPT !.i = @ + 1, !.inflight = Append(@, idea)]

\* The pending judge call at position k settles with out: the idea is pushed
\* to approved or rejected; a judge() that threw ends filterIdeas with that
\* error.
settleJudge(f, k, out) ==
    LET idea == f.inflight[k]
        g == [f EXCEPT !.inflight =
                 SubSeq(@, 1, k - 1) \o SubSeq(@, k + 1, Len(@))]
    IN IF out.threw THEN [g EXCEPT !.status = "threw"]
       ELSE LET h == IF Get(out.verdict).approved
                     THEN pushApproved(g, idea)
                     ELSE pushRejected(g, idea, Get(out.verdict))
            IN [h EXCEPT !.status = loopStatus(h)]

\* One iteration of the for-loop of filterIdeas, from taking the idea at
\* position i to the end of the iteration: the idea is auto-approved when
\* its repo is unknown, else judged and pushed to approved or rejected.
FilterStep ==
    /\ filter.status = "running"
    /\ filter.i <= Len(filter.ideas)
    /\ mayStartJudge(filter)
    /\ LET idea == filter.ideas[filter.i]
       IN IF repoMissing(filter, idea)
          THEN /\ filter' = advance(pushApproved(filter, idea))
               /\ calls' = calls
          ELSE \E ans \in SampleAnswers :
                 /\ calls' = Append(calls, [op |-> "judge", arg |-> <<idea.id>>])
                 /\ filter' = settleJudge(startJudge(filter, idea), 1,
                                          judge(idea, ans.how, ans.raw))

\* The first half of an iteration: the loop takes the idea at position i and
\* auto-approves it or calls judge() for it.
FilterStart ==
    /\ filter.status = "running"
    /\ filter.i <= Len(filter.ideas)
    /\ mayStartJudge(filter)
    /\ LET idea == filter.ideas[filter.i]
       IN IF repoMissing(filter, idea)
          THEN /\ filter' = advance(pushApproved(filter, idea))
               /\ calls' = calls
          ELSE /\ filter' = startJudge(filter, idea)
               /\ calls' = Append(calls, [op |-> "judge", arg |-> <<idea.id>>])

\* The second half: a pending judge call settles.
FilterSettle ==
    /\ filter.status = "running"
    /\ \E k \in 1..Len(filter.inflight), ans \in SampleAnswers :
          LET idea == filter.inflight[k]
          IN /\ filter' = settleJudge(filter, k, judge(idea, ans.how, ans.raw))
             /\ calls' = Append(calls, [op |-> "judge settled",
                                        arg |-> <<idea.id>>])

\* ------------------------------------------------------------------------
\* TrendScout.scoutTrends
\* ------------------------------------------------------------------------

\* most repos one search returns
MaxRepos == 2

\* No scoutTrends() call is under test.
NoScout == [options |-> [period |-> "daily", language |-> <<>>, minStars |-> 0],
            periods |-> <<>>, p |-> 1, filtered |-> <<>>, a |-> 1,
            analyzed |-> <<>>, status |-> "idle", result |-> <<>>]

\* No StateManager is under test.
NoStore == [saves |-> <<>>, loaded |-> None]

\* The ScoutOptions tried: each window, the languages the orchestrator asks
\* for, and a star floor at and above the one of the search query. topics
\* and maxAge are left unset, as the orchestrator leaves them.
ScoutOptions ==
    [period : {"daily", "weekly", "monthly"},
     language : {<<"TypeScript", "JavaScript">>},
     minStars : {100, 1000}]

\* const periods = [options.period], widened by the wider windows.
periodsFrom(period) ==
    IF period = "daily" THEN <<"daily", "weekly", "monthly">>
    ELSE IF period = "weekly" THEN <<"weekly", "monthly">>
    ELSE <<period>>

\* What GitHubClient.getTrending may return for a query: repos of a queried
\* language with more than 100 stars, each full name once, most stars
\* first.
SearchResults(options) ==
    LET Raw == [name : {"r1", "r2"}, stars : {150, 2000},
                language : Range(options.language)]
    IN {r \in UNION {[1..n -> Raw] : n \in 0..MaxRepos} :
          \A a, b \in 1..Len(r) :
             a < b => r[a].name # r[b].name /\ r[a].stars >= r[b].stars}

\* The callback of repos.filter(...), with topics and maxAge unset.
passesFilters(repo, options) ==
    /\ ~(options.minStars # 0 /\ repo.stars < options.minStars)
    /\ ~(Len(options.language) > 0
           /\ repo.language \notin Range(options.language))

\* seq.slice(0, n)
Slice(seq, n) == SubSeq(seq, 1, Min(n, Len(seq)))

\* Array.prototype.sort((a, b) => b.ideaPotential - a.ideaPotential): a
\* stable sort, highest potential first.
RECURSIVE sortByPotential(_)
sortByPotential(repos) ==
    IF repos = <<>> THEN <<>>
    ELSE LET rest == sortByPotential(Tail(repos))
             before == SelectSeq(rest, LAMBDA r :
                                   r.ideaPotential > Head(repos).ideaPotential)
             after == SelectSeq(rest, LAMBDA r :
                                  r.ideaPotential <= Head(repos).ideaPotential)
         IN before \o <<Head(repos)>> \o after

rankByPotential_InPlace(repos) ==
    [ranked |-> sortByPotential(repos), repos |-> sortByPotential(repos)]

\* return [...repos].sort(...): the sorted copy that is returned, and the
\* argument array as the call leaves it.
rankByPotential(repos) ==
    [ranked |-> sortByPotential(repos), repos |-> repos]

\* The locals of a scoutTrends(options) call at its start.
scoutTrendsCall(options) ==
    [options |-> options, periods |-> periodsFrom(options.period), p |-> 1,
     filtered |-> <<>>, a |-> 1, analyzed |-> <<>>, status |-> "searching",
     result |-> <<>>]

\* The analysis loop is over: rank, return the first five.
scoutReturn(sc) ==
    IF sc.a > Len(Slice(sc.filtered, 10))
    THEN LET call == rankByPotential(sc.analyzed)
         IN [sc EXCEPT !.status = "returned",
                       !.analyzed = call.repos,
                       !.result = Slice(call.ranked, 5)]
    ELSE sc

\* The search loop is left with repos: filter them and enter the analysis
\* loop.
afterSearch(sc, repos) ==
    scoutReturn([sc EXCEPT
                   !.filtered = SelectSeq(repos, LAMBDA r :
                                            passesFilters(r, sc.options)),
                   !.status = "analyzing"])

\* One iteration of the loop over periods: the window is searched; a
\* non-empty result ends the loop, an empty one goes on to the next window
\* or, after the last, leaves the loop with no repo.
ScoutSearch ==
    /\ scout.status = "searching"
    /\ LET period == scout.periods[scout.p]
       IN \E repos \in SearchResults(scout.options) :
             /\ calls' = Append(calls,
                                [op |-> "getTrending",
                                 arg |-> <<period, IF repos = <<>> THEN "empty"
                                                   ELSE "nonempty">>])
             /\ scout' = IF repos # <<>> \/ scout.p = Len(scout.periods)
                         THEN afterSearch(scout, repos)
                         ELSE [scout EXCEPT !.p = @ + 1]
    /\ UNCHANGED <<store, jcall, filter, runVars, oracleVars>>

\* getTrending logs and rethrows a failed search: scoutTrends rejects.
ScoutSearchThrows ==
    /\ scout.status = "searching"
    /\ calls' = Append(calls, [op |-> "getTrending",
                               arg |-> <<scout.periods[scout.p], "threw">>])
    /\ scout' = [scout EXCEPT !.status = "threw"]
    /\ UNCHANGED <<store, jcall, filter, runVars, oracleVars>>

\* The potentials analyzeRepo may compute.
Potentials == {40, 60}

\* One iteration of the analysis loop: analyzeRepo returns the repo with its
\* potential, or throws and the repo is skipped.
ScoutAnalyze ==
    /\ scout.status = "analyzing"
    /\ LET repo == scout.filtered[scout.a]
       IN \/ \E potential \in Potentials :
               /\ calls' = Append(calls, [op |-> "analyzeRepo",
                                          arg |-> <<repo.name, "returned",
                                                    potential>>])
               /\ scout' = scoutReturn(
                              [scout EXCEPT
                                 !.a = @ + 1,
                                 !.analyzed =
                                    Append(@, [name |-> repo.name,
                                               ideaPotential |-> potential])])
          \/ /\ calls' = Append(calls, [op |-> "analyzeRepo",
                                        arg |-> <<repo.name, "threw">>])
             /\ scout' = scoutReturn([scout EXCEPT !.a = @ + 1])
    /\ UNCHANGED <<store, jcall, filter, runVars, oracleVars>>

\* ------------------------------------------------------------------------
\* Orchestrator: state, checkpoint, failure path
\* ------------------------------------------------------------------------

Ids(ideas) == [k \in 1..Len(ideas) |-> ideas[k].id]

Configs == [dryRun : BOOLEAN, skipGithub : BOOLEAN, skipTwitter : BOOLEAN]

\* new Date(ms): an instant
Date(ms) == [t |-> "Date", ms |-> ms]

\* Date.prototype.toJSON: the ISO-8601 string of the instant
toISOString(d) == [t |-> "string", iso |-> d.ms]

\* this.state as the constructor leaves it.
InitialState ==
    [currentPhase |-> "initialization", startTime |-> Date(0),
     trends |-> None, ideas |-> None, selectedIdea |-> None, research |-> None,
     implementation |-> None, deployment |-> None, announcement |-> None,
     errors |-> <<>>]

NoFilter == [ideas |-> <<>>, repoKeys |-> {}, i |-> 1, approved |-> <<>>,
             rejected |-> <<>>, inflight |-> <<>>, status |-> "idle"]

NoRegen == [groups |-> <<>>, g |-> 1, improved |-> <<>>]

NoJudgeCall == [idea |-> Idea(1, "o/r1", TRUE), how |-> "done",
                raw |-> [segs |-> <<>>, obj |-> ApprovingObject],
                status |-> "idle", verdict |-> None]

\* The state file before the first save; the argument of the last save call
\* and whether its write went through (no call yet).
NoSnapshot == [file |-> None, arg |-> None, ok |-> FALSE]

\* JSON.stringify(state, null, 2): the value the text denotes, a Date turned
\* into its ISO string (an unset field is left out of the text and is unset
\* in the parsed value).
stringify(st) == [st EXCEPT !.startTime = toISOString(@)]

\* The content of a file: the whole text of a value, or a beginning of a
\* text that does not parse.
Text(value) == [complete |-> TRUE, value |-> value]

TornText == [complete |-> FALSE, value |-> <<>>]

\* How mkdir + writeFile may end: the text is written; an error before the
\* file is opened leaves it as it was; an error after writeFile has opened
\* it (flag 'w' truncates) leaves a beginning of the text.
WriteOutcomes == {"written", "failed", "truncated"}

\* StateManager.save: the file is overwritten with the text of the state; a
\* write error is caught and logged.
save(st, outcome) ==
    [file |-> CASE outcome = "written" -> Some(Text(stringify(st)))
                [] outcome = "truncated" -> Some(TornText)
                [] OTHER -> snapshot.file,
     arg |-> Some(st), ok |-> outcome = "written"]

\* StateManager.load: the parsed text of the file; null (None) when the
\* file is missing or its text does not parse.
load(file) ==
    IF IsSet(file) /\ Get(file).complete THEN Some(Get(file).value) ELSE None

\* The states handed to save() in the StateManager runs: the phase, the
\* start time and the errors vary.
StoreStates ==
    {[InitialState EXCEPT !.currentPhase = phase, !.startTime = Date(ms),
                          !.errors = errors] :
        phase \in {"scout-trends", "research"}, ms \in {0, 1},
        errors \in {<<>>, <<[phase |-> "research", error |-> <<"oracle error">>]>>}}

\* most save calls of one StateManager
MaxSaves == 3

\* save(state) is called and has settled.
StoreSave ==
    /\ Len(store.saves) < MaxSaves
    /\ \E st \in StoreStates, outcome \in WriteOutcomes :
          /\ snapshot' = save(st, outcome)
          /\ store' = [store EXCEPT
                         !.saves = Append(@, [state |-> st, outcome |-> outcome])]
    /\ UNCHANGED <<oracleVars, scout, jcall, filter, calls, pc, state, config, round, regen,
                   rIdx, abandoned, result, tb>>

\* load() is called and has settled: what it returned, and after how many
\* saves.
StoreLoad ==
    /\ store' = [store EXCEPT
                   !.loaded = Some([after |-> Len(store.saves),
                                    value |-> load(snapshot.file)])]
    /\ UNCHANGED <<oracleVars, scout, jcall, filter, calls, pc, state, config, round, regen,
                   rIdx, abandoned, snapshot, result, tb>>

saveState_Skips(st, outcome) == snapshot' = snapshot

\* await this.stateManager.save(this.state), however the write ends
saveState(st, outcome) == snapshot' = save(st, outcome)

saveThrows_Propagates(outcome) == outcome # "written"

\* Whether save() rejects: never, its catch block logs the failed write.
saveThrows(outcome) == FALSE

Log(op, arg) == calls' = Append(calls, [op |-> op, arg |-> arg])

\* The oracle awaited by the current phase returned value.
Returned(value) == Log("returned", <<state.currentPhase, value>>)

\* The catch block of run(): record the error under the current phase,
\* checkpoint, return the failed RunResult.
errorEntry_NoPhase(st, msg) == [phase |-> "unknown", error |-> msg]

\* The entry pushed to state.errors (its timestamp is left out).
errorEntry(st, msg) == [phase |-> st.currentPhase, error |-> msg]

\* (Date.now() - this.state.startTime.getTime()) / 1000; the run's clock is
\* not modelled, the field is.
totalTime == "seconds since startTime"

\* this.state.deployment?.repoUrl
repoUrlOf(st) ==
    IF IsSet(st.deployment) THEN Some(Get(st.deployment).repoUrl) ELSE None

\* this.state.announcement?.tweetUrl
tweetUrlOf(st) ==
    IF IsSet(st.announcement) THEN Get(st.announcement).tweetUrl ELSE None

push_Drops(errors, entry) == errors

\* this.state.errors.push(entry)
push(errors, entry) == Append(errors, entry)

\* The catch block entered with this.state = st0: a save that rejects there
\* would make run() reject.
FailFrom(st0, msg) ==
    LET st == [st0 EXCEPT !.errors = push(@, errorEntry(st0, msg))]
    IN \E outcome \in WriteOutcomes :
          /\ state' = st
          /\ saveState(st, outcome)
          /\ IF saveThrows(outcome)
             THEN /\ pc' = "rejected"
                  /\ result' = result
             ELSE /\ result' = Some([success |-> FALSE, error |-> Some(msg),
                                     idea |-> None, repoUrl |-> None,
                                     tweetUrl |-> None,
                                     totalTime |-> totalTime, state |-> st])
                  /\ pc' = "done"

Fail(msg) == FailFrom(state, msg)

\* A phase returned leaving this.state = st: run() saves the state and goes
\* on to next; a save that rejects (it has not written) is caught like any
\* error of the try block.
Checkpoint(st, next) ==
    \E outcome \in WriteOutcomes :
       IF saveThrows(outcome)
       THEN FailFrom(st, <<"write error">>)
       ELSE /\ state' = st
            /\ saveState(st, outcome)
            /\ pc' = next
            /\ result' = result

\* No TimeBudget.run call is under test.
NoBudget == [label |-> "", budget |-> 0, now |-> 0, timer |-> "none",
             firedAt |-> None, fn |-> None, fnAt |-> None, promise |-> None,
             events |-> <<>>]

\* TimeBudget.run: the error its timer rejects with.
TimeBudgetExceeded(label) == <<"TimeBudget exceeded for", label>>

Abandon(label, n) == abandoned' = abandoned \cup {<<label, n>>}

\* ------------------------------------------------------------------------
\* Phase 1 (scout-trends) and phase 2 (generate-ideas)
\* ------------------------------------------------------------------------

\* What scoutTrends may return: no repo, or the two repos.
TrendLists == {<<>>, <<"o/r1", "o/r2">>}

Phase1Start ==
    /\ pc = "phase1"
    /\ state' = [state EXCEPT !.currentPhase = "scout-trends"]
    /\ Log("scoutTrends", <<>>)
    /\ pc' = "await-scout"
    /\ UNCHANGED <<oracleVars, scout, store, tb, jcall, filter, config, round, regen, rIdx, abandoned,
                   snapshot, result>>

Phase1Resolve ==
    /\ pc = "await-scout"
    /\ \E trends \in TrendLists :
          /\ Returned(IF trends = <<>> THEN "empty" ELSE "nonempty")
          /\ IF trends = <<>>
             THEN Fail(<<"No suitable trends found">>)
             ELSE Checkpoint([state EXCEPT !.trends = Some(trends)], "phase2")
    /\ UNCHANGED <<oracleVars, scout, store, tb, jcall, filter, config, round, regen, rIdx, abandoned>>

noIdeas_Never(allIdeas) == FALSE

\* allIdeas.length === 0
noIdeas(allIdeas) == Len(allIdeas) = 0

Phase2Start ==
    /\ pc = "phase2"
    /\ state' = [state EXCEPT !.currentPhase = "generate-ideas"]
    /\ Log("generateOriginalIdeas", <<>>)
    /\ pc' = "await-generate"
    /\ UNCHANGED <<oracleVars, scout, store, tb, jcall, filter, config, round, regen, rIdx, abandoned,
                   snapshot, result>>

Phase2Resolve ==
    /\ pc = "await-generate"
    /\ \E allIdeas \in GeneratedLists :
          /\ Returned(IF allIdeas = <<>> THEN "empty" ELSE "nonempty")
          /\ IF noIdeas(allIdeas)
             THEN Fail(<<"No viable ideas generated">>)
             ELSE Checkpoint([state EXCEPT !.ideas = Some(allIdeas)], "phase2b")
    /\ UNCHANGED <<oracleVars, scout, store, tb, jcall, filter, config, round, regen, rIdx, abandoned>>

\* The awaits of the phases that make one oracle call inside TimeBudget.run
\* and let its rejection reach the catch block of run().
SingleCallAwaits ==
    {"await-scout", "await-generate", "await-implement", "await-deploy",
     "await-announce"}

\* The awaits whose oracle may reject. deploy() and announce() run inside a
\* try block of their own and turn every error into success=false.
RejectingAwaits == {"await-scout", "await-generate", "await-implement"}

\* The oracle's promise rejects: TimeBudget.run passes the error on.
OracleThrows ==
    /\ pc \in RejectingAwaits
    /\ Log("threw", <<state.currentPhase>>)
    /\ Fail(<<"oracle error">>)
    /\ UNCHANGED <<oracleVars, scout, store, tb, jcall, filter, config, round, regen, rIdx, abandoned>>

\* config.timeBudgets, in seconds
timeBudgets ==
    [trendScout |-> 900, ideaGenerator |-> 1200, ideaJudge |-> 600,
     researcher |-> 1800, implementer |-> 28800, deployer |-> 1200,
     announcer |-> 600]

budgetInForce_NoTimer(p) == None

\* The TimeBudget.run call that run() is awaiting at position p: its label
\* and its budget; None where run() is not inside TimeBudget.run.
budgetInForce(p) ==
    CASE p = "await-scout" -> Some(<<"scout-trends", timeBudgets.trendScout>>)
      [] p = "await-generate" -> Some(<<"generate-ideas", timeBudgets.ideaGenerator>>)
      [] p = "await-filter" -> Some(<<"judge-ideas-round", timeBudgets.ideaJudge>>)
      [] p = "await-research" -> Some(<<"research", timeBudgets.researcher>>)
      [] p = "await-implement" -> Some(<<"implement", timeBudgets.implementer>>)
      [] p = "await-deploy" -> Some(<<"deploy", timeBudgets.deployer>>)
      [] p = "await-announce" -> Some(<<"announce", timeBudgets.announcer>>)
      [] OTHER -> None

\* The timer of TimeBudget.run fires first: run() fails, the operation is
\* not cancelled.
BudgetExceeded ==
    /\ pc \in SingleCallAwaits
    /\ IsSet(budgetInForce(pc))
    /\ Log("timed out", <<state.currentPhase>>)
    /\ Fail(TimeBudgetExceeded(state.currentPhase))
    /\ Abandon(state.currentPhase, 0)
    /\ UNCHANGED <<oracleVars, scout, store, tb, jcall, filter, config, round, regen, rIdx>>

\* An abandoned operation settles later: resolve and reject of the promise
\* already settled by the timer do nothing.
AbandonedSettles ==
    /\ \E op \in abandoned : abandoned' = abandoned \ {op}
    /\ UNCHANGED <<oracleVars, scout, store, tb, jcall, filter, calls, pc, state, config, round, regen, rIdx,
                   snapshot, result>>

\* ------------------------------------------------------------------------
\* Phase 2b (judge-ideas): the judge feedback loop
\* ------------------------------------------------------------------------

MAX_ROUNDS_Three == 2 + 1

MAX_ROUNDS == 2

\* repoMap: the "owner/name" keys of state.trends (state.trends ?? []).
repoMap == IF IsSet(state.trends) THEN Range(Get(state.trends)) ELSE {}

Phase2bStart ==
    /\ pc = "phase2b"
    /\ state' = [state EXCEPT !.currentPhase = "judge-ideas"]
    /\ round' = 0
    /\ pc' = "round"
    /\ UNCHANGED <<oracleVars, scout, store, tb, jcall, filter, calls, config, regen, rIdx, abandoned,
                   snapshot, result>>

\* The list a judging round hands to filterIdeas: this.state.ideas!
roundInput(st) == Get(st.ideas)

\* Top of the for-loop: another round calls filterIdeas inside TimeBudget.run;
\* when the rounds are used up the phase throws.
RoundTop ==
    /\ pc = "round"
    /\ IF round < MAX_ROUNDS
       THEN /\ filter' = filterIdeasCall(roundInput(state), repoMap)
            /\ Log("filterIdeas", Ids(roundInput(state)))
            /\ pc' = "await-filter"
            /\ UNCHANGED <<state, snapshot, result>>
       ELSE /\ Fail(<<"All ideas rejected by the differentiation judge">>)
            /\ UNCHANGED <<filter, calls>>
    /\ UNCHANGED <<oracleVars, scout, store, tb, jcall, config, round, regen, rIdx, abandoned>>

\* filterIdeas judges its next idea while run() awaits it.
JudgeStep ==
    /\ pc = "await-filter"
    /\ FilterStep
    /\ UNCHANGED <<jcall, orchVars>>

\* Distinct originalRepo keys of the rejected entries, in first-seen order:
\* the keys of the byRepo map of regenerateFromFeedback.
groupKeys_PerIdea(rejected, seen) ==
    [k \in 1..Len(rejected) |-> rejected[k].idea.originalRepo]

RECURSIVE groupKeys(_, _)
groupKeys(rejected, seen) ==
    IF rejected = <<>> THEN <<>>
    ELSE LET key == Head(rejected).idea.originalRepo
         IN IF key \in seen THEN groupKeys(Tail(rejected), seen)
            ELSE <<key>> \o groupKeys(Tail(rejected), seen \cup {key})

regenerateCall(rejected) ==
    [groups |-> groupKeys(rejected, {}), g |-> 1, improved |-> <<>>]

afterRound_KeepsAll(f) == f.ideas

\* What a round that approved something stores in state.ideas.
afterRound(f) == f.approved

\* filterIdeas returned: keep the approved ideas and leave the phase, or
\* regenerate when a retry is left, or go to the next round.
RoundResolve ==
    /\ pc = "await-filter"
    /\ filter.status = "returned"
    /\ IF filter.approved # <<>>
       THEN /\ Checkpoint([state EXCEPT !.ideas = Some(afterRound(filter))],
                           "phase3")
            /\ UNCHANGED <<calls, round, regen>>
       ELSE IF round < MAX_ROUNDS - 1
       THEN /\ regen' = regenerateCall(filter.rejected)
            /\ Log("regenerateFromFeedback",
                   [k \in 1..Len(filter.rejected) |-> filter.rejected[k].idea.id])
            /\ pc' = "regen"
            /\ UNCHANGED <<state, snapshot, round, result>>
       ELSE /\ round' = round + 1
            /\ pc' = "round"
            /\ UNCHANGED <<state, snapshot, calls, regen, result>>
    /\ UNCHANGED <<oracleVars, scout, store, tb, jcall, filter, config, rIdx, abandoned>>

\* judge() threw inside filterIdeas: the rejection reaches run()'s catch.
RoundThrows ==
    /\ pc = "await-filter"
    /\ filter.status = "threw"
    /\ Fail(<<"TypeError">>)
    /\ UNCHANGED <<oracleVars, scout, store, tb, jcall, filter, calls, config, round, regen, rIdx, abandoned>>

\* The round's TimeBudget expires while filterIdeas is still judging.
RoundBudgetExceeded ==
    /\ pc = "await-filter"
    /\ IsSet(budgetInForce(pc))
    /\ filter.status = "running"
    /\ Fail(TimeBudgetExceeded("judge-ideas-round"))
    /\ filter' = [filter EXCEPT !.status = "abandoned"]
    /\ Abandon("judge-ideas-round", round)
    /\ UNCHANGED <<oracleVars, scout, store, tb, jcall, calls, config, round, regen, rIdx>>

\* What the regeneration collaborator may answer for one repo: a complete
\* idea for that repo, a complete idea naming a repo nobody scouted, an idea
\* without its array fields, an object without the required fields, and a
\* call that timed out.
RegenAnswers ==
    {[how |-> "done", segs |-> <<"obj">>, required |-> TRUE, sameRepo |-> TRUE, typed |-> TRUE],
     [how |-> "done", segs |-> <<"txt", "obj">>, required |-> TRUE, sameRepo |-> FALSE, typed |-> TRUE],
     [how |-> "done", segs |-> <<"obj">>, required |-> TRUE, sameRepo |-> TRUE, typed |-> FALSE],
     [how |-> "done", segs |-> <<"obj">>, required |-> FALSE, sameRepo |-> TRUE, typed |-> TRUE],
     [how |-> "timeout", segs |-> <<"obj">>, required |-> TRUE, sameRepo |-> TRUE, typed |-> TRUE]}

\* Whether the answer yields an idea that is pushed to improved.
regenAccepts(ans) ==
    LET piResult == piExecute(ans.how, [segs |-> ans.segs, obj |-> ans])
        m == jsonMatch(ans.segs)
    IN /\ piResult.success
       /\ ans.segs # <<>>
       /\ IsSet(m)
       /\ jsonParse(Get(m), ans) = Some(ans)
       /\ ans.required

\* One iteration of the for-loop over byRepo: one collaborator call for the
\* group's repo, and at most one new idea. The regenerated ideas are new
\* objects, numbered after the generator's.
RegenStep ==
    /\ pc = "regen"
    /\ regen.g <= Len(regen.groups)
    /\ LET repoKey == regen.groups[regen.g]
       IN IF repoKey \notin repoMap
          THEN /\ regen' = [regen EXCEPT !.g = @ + 1]
               /\ calls' = calls
          ELSE \E ans \in RegenAnswers :
                 /\ Log("pi.execute", <<repoKey>>)
                 /\ regen' =
                      [regen EXCEPT
                         !.g = @ + 1,
                         !.improved =
                            IF regenAccepts(ans)
                            THEN Append(@, Idea(MaxIdeas + regen.g,
                                                IF ans.sameRepo THEN repoKey
                                                ELSE UnknownRepo,
                                                ans.typed))
                            ELSE @]
    /\ UNCHANGED <<oracleVars, scout, store, tb, jcall, filter, pc, state, config, round, rIdx, abandoned,
                   snapshot, result>>

afterRegen_KeepsOriginal(st, improved) == st

afterRegen_ResetsTrends(st, improved) ==
    [st EXCEPT !.ideas = IF improved # <<>> THEN Some(improved) ELSE @,
               !.trends = None]

\* if (improved.length > 0) this.state.ideas = improved
afterRegen(st, improved) ==
    IF improved # <<>> THEN [st EXCEPT !.ideas = Some(improved)] ELSE st

nextRound_GivesUp(r, improved) ==
    IF improved = <<>> THEN MAX_ROUNDS ELSE r + 1

\* The for-loop's round++, reached by the continue and by falling out of the
\* if alike.
nextRound(r, improved) == r + 1

\* regenerateFromFeedback returned: improved ideas replace state.ideas, and
\* in either case the loop goes to its next round.
RegenReturn ==
    /\ pc = "regen"
    /\ regen.g > Len(regen.groups)
    /\ state' = afterRegen(state, regen.improved)
    /\ round' = nextRound(round, regen.improved)
    /\ pc' = "round"
    /\ UNCHANGED <<oracleVars, scout, store, tb, jcall, filter, calls, config, regen, rIdx, abandoned,
                   snapshot, result>>

\* ------------------------------------------------------------------------
\* Phase 3 (research)
\* ------------------------------------------------------------------------

Recommendations == {"SHIP", "PIVOT", "ABORT"}

Phase3Start ==
    /\ pc = "phase3"
    /\ state' = [state EXCEPT !.currentPhase = "research"]
    /\ rIdx' = 1
    /\ pc' = "research-loop"
    /\ UNCHANGED <<oracleVars, scout, store, tb, jcall, filter, calls, config, round, regen, abandoned,
                   snapshot, result>>

\* Top of the for-of loop over state.ideas: research the next idea inside
\* TimeBudget.run, or throw when the list is used up.
ResearchNext ==
    /\ pc = "research-loop"
    /\ IF rIdx <= Len(Get(state.ideas))
       THEN /\ Log("research", <<Get(state.ideas)[rIdx].id>>)
            /\ pc' = "await-research"
            /\ UNCHANGED <<state, snapshot, result>>
       ELSE /\ Fail(<<"No shippable ideas after research">>)
            /\ UNCHANGED calls
    /\ UNCHANGED <<oracleVars, scout, store, tb, jcall, filter, config, round, regen, rIdx, abandoned>>

isShip_Pivot(recommendation) == recommendation \in {"SHIP", "PIVOT"}

isShip(recommendation) == recommendation = "SHIP"

afterSkip_Abort(i, ideas) == Len(ideas) + 1

\* The loop position after an idea that was not selected.
afterSkip(i, ideas) == i + 1

select_IdeaOnly(st, idea, research) ==
    [st EXCEPT !.selectedIdea = Some(idea)]

\* this.state.selectedIdea = idea; this.state.research = research.
select(st, idea, research) ==
    [st EXCEPT !.selectedIdea = Some(idea), !.research = Some(research)]

\* research() returned a report: SHIP selects the idea and leaves the phase,
\* anything else moves on to the next idea.
ResearchResolve ==
    /\ pc = "await-research"
    /\ \E recommendation \in Recommendations :
          LET idea == Get(state.ideas)[rIdx]
          IN /\ Log(recommendation, <<idea.id>>)
             /\ IF isShip(recommendation)
                THEN /\ Checkpoint(
                            select(state, idea,
                                   [idea |-> idea.id,
                                    recommendation |-> recommendation]),
                            "phase4")
                     /\ UNCHANGED rIdx
                ELSE /\ rIdx' = afterSkip(rIdx, Get(state.ideas))
                     /\ pc' = "research-loop"
                     /\ UNCHANGED <<state, snapshot, result>>
    /\ UNCHANGED <<oracleVars, scout, store, tb, jcall, filter, config, round, regen, abandoned>>

\* research() rejected: the per-idea catch logs it and the loop goes on.
ResearchThrows ==
    /\ pc = "await-research"
    /\ rIdx' = afterSkip(rIdx, Get(state.ideas))
    /\ pc' = "research-loop"
    /\ Log("research threw", <<Get(state.ideas)[rIdx].id>>)
    /\ UNCHANGED <<oracleVars, scout, store, tb, jcall, filter, state, config, round, regen, abandoned,
                   snapshot, result>>

\* The idea's TimeBudget expired: caught like any error, the research call
\* itself is left running.
ResearchBudgetExceeded ==
    /\ pc = "await-research"
    /\ IsSet(budgetInForce(pc))
    /\ rIdx' = afterSkip(rIdx, Get(state.ideas))
    /\ pc' = "research-loop"
    /\ Abandon("research", Get(state.ideas)[rIdx].id)
    /\ Log("research timed out", <<Get(state.ideas)[rIdx].id>>)
    /\ UNCHANGED <<oracleVars, scout, store, tb, jcall, filter, state, config, round, regen, snapshot, result>>

\* ------------------------------------------------------------------------
\* Phases 4 to 6 (implement, deploy, announce) and the end of run()
\* ------------------------------------------------------------------------

afterDeploy_SkipsAnnounce == "finish"

\* Where run() goes after the deploy block: announce unless skipped.
afterDeploy == IF config.skipTwitter THEN "finish" ELSE "phase6"

afterImplement_IgnoresDryRun ==
    IF config.skipGithub THEN afterDeploy ELSE "phase5"

\* Where run() goes after phase 4: nowhere on a dry run, else deploy unless
\* skipped.
afterImplement ==
    IF config.dryRun THEN "finish"
    ELSE IF config.skipGithub THEN afterDeploy
    ELSE "phase5"

\* ImplementationResult.status
ImplementationStatuses == {"complete", "partial", "failed"}

implementationFailed_Never(status) == FALSE

implementationFailed_PartialToo(status) == status \in {"failed", "partial"}

\* if (implementation.status === 'failed') throw
implementationFailed(status) == status = "failed"

Phase4Start ==
    /\ pc = "phase4"
    /\ state' = [state EXCEPT !.currentPhase = "implement"]
    /\ Log("implement", <<Get(state.selectedIdea).id>>)
    /\ pc' = "await-implement"
    /\ UNCHANGED <<oracleVars, scout, store, tb, jcall, filter, config, round, regen, rIdx, abandoned,
                   snapshot, result>>

Phase4Resolve ==
    /\ pc = "await-implement"
    /\ \E status \in ImplementationStatuses :
          /\ Returned(status)
          /\ IF implementationFailed(status)
             THEN Fail(<<"Implementation failed">>)
             ELSE Checkpoint([state EXCEPT
                                !.implementation = Some([status |-> status])],
                             afterImplement)
    /\ UNCHANGED <<oracleVars, scout, store, tb, jcall, filter, config, round, regen, rIdx, abandoned>>

Phase5Start ==
    /\ pc = "phase5"
    /\ state' = [state EXCEPT !.currentPhase = "deploy"]
    /\ Log("deploy", <<>>)
    /\ pc' = "await-deploy"
    /\ UNCHANGED <<oracleVars, scout, store, tb, jcall, filter, config, round, regen, rIdx, abandoned,
                   snapshot, result>>

Phase5Resolve ==
    /\ pc = "await-deploy"
    /\ \E success \in BOOLEAN :
          /\ Returned(IF success THEN "success" ELSE "failure")
          /\ IF ~success
             THEN Fail(<<"Deployment failed">>)
             ELSE Checkpoint([state EXCEPT !.deployment =
                                     Some([success |-> success,
                                           repoUrl |-> "repo.url"])],
                             afterDeploy)
    /\ UNCHANGED <<oracleVars, scout, store, tb, jcall, filter, config, round, regen, rIdx, abandoned>>

Phase6Start ==
    /\ pc = "phase6"
    /\ state' = [state EXCEPT !.currentPhase = "announce"]
    /\ Log("announce", <<>>)
    /\ pc' = "await-announce"
    /\ UNCHANGED <<oracleVars, scout, store, tb, jcall, filter, config, round, regen, rIdx, abandoned,
                   snapshot, result>>

Phase6Resolve ==
    /\ pc = "await-announce"
    /\ \E success \in BOOLEAN :
          /\ Returned(IF success THEN "success" ELSE "failure")
          /\ Checkpoint([state EXCEPT !.announcement =
                             Some([success |-> success,
                                   tweetUrl |-> IF success THEN Some("result.url")
                                                ELSE None])],
                        "finish")
    /\ UNCHANGED <<oracleVars, scout, store, tb, jcall, filter, config, round, regen, rIdx, abandoned>>

\* The end of the try block of run(): the successful RunResult.
Complete ==
    /\ pc = "finish"
    /\ result' = Some([success |-> TRUE, error |-> None,
                       idea |-> state.selectedIdea,
                       repoUrl |-> repoUrlOf(state),
                       tweetUrl |-> tweetUrlOf(state),
                       totalTime |-> totalTime, state |-> state])
    /\ pc' = "done"
    /\ UNCHANGED <<oracleVars, scout, store, tb, jcall, filter, calls, state, config, round, regen, rIdx,
                   abandoned, snapshot>>

\* ------------------------------------------------------------------------
\* Spec: one run() of the orchestrator
\* ------------------------------------------------------------------------

Init ==
    /\ pc = "phase1"
    /\ state = InitialState
    /\ config \in Configs
    /\ round = 0
    /\ regen = NoRegen
    /\ rIdx = 1
    /\ abandoned = {}
    /\ snapshot = NoSnapshot
    /\ result = None
    /\ tb = NoBudget
    /\ scout = NoScout
    /\ store = NoStore
    /\ OraclesIdle
    /\ filter = NoFilter
    /\ jcall = NoJudgeCall
    /\ calls = <<>>

Next ==
    \/ Phase1Start \/ Phase1Resolve
    \/ Phase2Start \/ Phase2Resolve
    \/ OracleThrows \/ BudgetExceeded \/ AbandonedSettles
    \/ Phase2bStart \/ RoundTop \/ JudgeStep \/ RoundResolve
    \/ RoundThrows \/ RoundBudgetExceeded
    \/ RegenStep \/ RegenReturn
    \/ Phase3Start \/ ResearchNext \/ ResearchResolve
    \/ ResearchThrows \/ ResearchBudgetExceeded
    \/ Phase4Start \/ Phase4Resolve
    \/ Phase5Start \/ Phase5Resolve
    \/ Phase6Start \/ Phase6Resolve
    \/ Complete

Spec == Init /\ [][Next]_vars

\* The steps the event loop is bound to take once they are ready: run()'s
\* own continuations, the TimeBudget timers, the regeneration call and the
\* checkpoint writes (part of the step that awaits them). The settling of a
\* phase's oracle is not among them.
Scheduled ==
    \/ Phase1Start \/ Phase2Start \/ Phase2bStart \/ RoundTop
    \/ Phase3Start \/ ResearchNext \/ Phase4Start \/ Phase5Start
    \/ Phase6Start \/ Complete
    \/ BudgetExceeded \/ RoundBudgetExceeded \/ ResearchBudgetExceeded
    \/ RoundResolve \/ RoundThrows
    \/ RegenStep \/ RegenReturn

\* A dry run goes from implement to the end whatever the skip flags say
\* (part_003:366-380): one dry-run configuration stands for the four.
InitLive ==
    /\ Init
    /\ config.dryRun => (config.skipGithub /\ config.skipTwitter)

\* SpecLive: one run() under the scheduling assumption.
SpecLive == InitLive /\ [][Next]_vars /\ WF_vars(Scheduled)

\* ------------------------------------------------------------------------
\* SpecJudge: one judge() call on every bounded reply
\* ------------------------------------------------------------------------

\* A reply the judge approves, one it rejects on score, one it rejects on
\* breadth, and one with a mistyped field: the objects tried in every shape.
SampleObjects ==
    {[differentiationScore |-> [t |-> "number", v |-> sc],
      axes |-> [t |-> "object",
                v |-> [a \in AxisNames |->
                         IF a = "runnability" THEN r
                         ELSE IF a = "problemDivergence" THEN d
                         ELSE "low"]]] :
        sc \in {45, 100}, r \in {"medium", "HIGH"}, d \in {"high", "none"}}

Replies ==
    {[segs |-> s, obj |-> o] : s \in Shapes, o \in SampleObjects}
    \cup {[segs |-> <<"obj">>, obj |-> o] : o \in JsonObjects}

\* The orchestrator before run() is called.
RunIdle ==
    /\ pc = "idle"
    /\ state = InitialState
    /\ config = [dryRun |-> TRUE, skipGithub |-> TRUE, skipTwitter |-> TRUE]
    /\ round = 0
    /\ regen = NoRegen
    /\ rIdx = 1
    /\ abandoned = {}
    /\ snapshot = NoSnapshot
    /\ result = None
    /\ tb = NoBudget

OrchIdle ==
    /\ RunIdle
    /\ scout = NoScout
    /\ store = NoStore
    /\ OraclesIdle

InitJudge ==
    /\ \E typed \in BOOLEAN, how \in PiEndings, raw \in Replies :
          /\ typed \/ raw.obj \in SampleObjects
          /\ jcall = [idea |-> Idea(1, "o/r1", typed), how |-> how, raw |-> raw,
                      status |-> "pending", verdict |-> None]
    /\ filter = NoFilter
    /\ calls = <<>>
    /\ OrchIdle

JudgeRun ==
    /\ jcall.status = "pending"
    /\ LET out == judge(jcall.idea, jcall.how, jcall.raw)
       IN jcall' = [jcall EXCEPT !.status = IF out.threw THEN "threw" ELSE "returned",
                                 !.verdict = out.verdict]
    /\ calls' = IF buildJudgePromptThrows(jcall.idea) THEN calls
                ELSE Append(calls, [op |-> "pi.execute", arg |-> <<jcall.idea.id>>])
    /\ UNCHANGED <<filter, orchVars>>

NextJudge == JudgeRun

SpecJudge == InitJudge /\ [][NextJudge]_vars

\* ------------------------------------------------------------------------
\* Properties of judge()
\* ------------------------------------------------------------------------

RECURSIVE DropTxt(_)
DropTxt(segs) ==
    IF segs # <<>> /\ Head(segs) = "txt" THEN DropTxt(Tail(segs)) ELSE segs

RECURSIVE DropTxtEnd(_)
DropTxtEnd(segs) ==
    IF segs # <<>> /\ segs[Len(segs)] = "txt"
    THEN DropTxtEnd(SubSeq(segs, 1, Len(segs) - 1)) ELSE segs

\* The reply as a reader sees it: prose around exactly one JSON object.
ReplyCore(raw) == DropTxtEnd(DropTxt(raw.segs))

ReplyIsOneObject(raw) == ReplyCore(raw) \in {<<"obj">>, <<"open", "close">>}

ReplyObject(raw) == IF ReplyCore(raw) = <<"obj">> THEN raw.obj ELSE EmptyObject

\* The acceptance rule read off the reply itself.
RuleScore(o) ==
    IF o.differentiationScore.t # "number" THEN 0
    ELSE IF o.differentiationScore.v < 0 THEN 0
    ELSE IF o.differentiationScore.v > 100 THEN 100
    ELSE o.differentiationScore.v

RuleBonus(o) ==
    IF o.axes.t = "object" /\ o.axes.v["runnability"] = "high" THEN 10
    ELSE IF o.axes.t = "object" /\ o.axes.v["runnability"] = "medium" THEN 5
    ELSE 0

RuleStrong(o) ==
    IF o.axes.t # "object" THEN 0
    ELSE Cardinality({a \in AxisNames : o.axes.v[a] \in {"medium", "high"}})

RuleApproves(o) ==
    /\ (IF RuleScore(o) + RuleBonus(o) > 100 THEN 100
        ELSE RuleScore(o) + RuleBonus(o)) >= 50
    /\ RuleStrong(o) >= 2

JudgeAnswered == jcall.status = "returned" /\ jcall.how = "done"

IsFailClosed(v) ==
    /\ v.approved = FALSE
    /\ v.differentiationScore = 0
    /\ \A a \in AxisNames : v.axes[a] = "none"

\* C1: for every reply that parses to a JSON object, judge() approves if and
\* only if min(100, clamped score + runnability bonus) >= 50 and at least two
\* of the five axes are rated medium or high.
C1_ApprovedIffRule ==
    (JudgeAnswered /\ ReplyIsOneObject(jcall.raw))
        => (Get(jcall.verdict).approved <=> RuleApproves(ReplyObject(jcall.raw)))

\* C1 witness: a reply scored below 50 that is approved thanks to the
\* runnability bonus.
C1_Witness ==
    /\ JudgeAnswered
    /\ ReplyIsOneObject(jcall.raw)
    /\ jcall.raw.obj.differentiationScore = [t |-> "number", v |-> 45]
    /\ Get(jcall.verdict).approved

\* A reply is malformed when it holds no JSON object, holds text that does
\* not parse, or holds an object that lacks or mistypes an expected field.
ObjectIsWellFormed(o) ==
    /\ o.differentiationScore.t = "number"
    /\ o.axes.t = "object"
    /\ \A a \in AxisNames : o.axes.v[a] \in Levels

ReplyIsMalformed(raw) ==
    ~ReplyIsOneObject(raw) \/ ~ObjectIsWellFormed(ReplyObject(raw))

\* C2: judge() never throws, and every malformed collaborator output yields
\* the verdict approved=false, score 0, all five axes none.
C2_NeverThrowsFailClosed ==
    /\ jcall.status # "threw"
    /\ (JudgeAnswered /\ ReplyIsMalformed(jcall.raw))
          => IsFailClosed(Get(jcall.verdict))

\* C3: when the collaborator call fails, times out or returns empty output,
\* judge() returns the fail-closed verdict whose reasoning names the failure,
\* so no idea is approved on a failed or timed-out call.
C3_FailedCallFailClosed ==
    (calls # <<>> /\ (jcall.how # "done" \/ jcall.raw.segs = <<>>))
        => /\ jcall.status = "returned"
           /\ IsFailClosed(Get(jcall.verdict))
           /\ Get(jcall.verdict).reasoning = "LLM evaluation failed"

\* C3 witness: the call timed out after streaming a complete reply that the
\* acceptance rule would approve.
C3_Witness ==
    /\ jcall.status = "returned"
    /\ jcall.how = "timeout"
    /\ jcall.raw.segs = <<"obj">>
    /\ RuleApproves(jcall.raw.obj)
    /\ ~Get(jcall.verdict).approved

\* ------------------------------------------------------------------------
\* SpecFilter: one filterIdeas() call on every bounded idea list
\* ------------------------------------------------------------------------

InitFilter ==
    /\ \E ideas \in IdeaListsUpTo(1, MaxIdeas), keys \in SUBSET RepoKeys :
          filter = filterIdeasCall(ideas, keys)
    /\ jcall = NoJudgeCall
    /\ calls = <<>>
    /\ OrchIdle

FilterIdeasStart == FilterStart /\ UNCHANGED <<jcall, orchVars>>

FilterIdeasSettle == FilterSettle /\ UNCHANGED <<jcall, orchVars>>

NextFilter == FilterIdeasStart \/ FilterIdeasSettle

SpecFilter == InitFilter /\ [][NextFilter]_vars

\* ------------------------------------------------------------------------
\* Properties of filterIdeas()
\* ------------------------------------------------------------------------

RejectedIdeas(f) == {f.rejected[k].idea : k \in 1..Len(f.rejected)}

JudgedIds == {calls[k].arg[1] : k \in {j \in 1..Len(calls) : calls[j].op = "judge"}}

\* C4: a returned filterIdeas() has placed every input idea in exactly one
\* of approved and rejected: the lengths add up, no idea is in both lists,
\* and both lists hold input ideas only.
C4_Partition ==
    filter.status = "returned" =>
        /\ Len(filter.approved) + Len(filter.rejected) = Len(filter.ideas)
        /\ Range(filter.approved) \cap RejectedIdeas(filter) = {}
        /\ Range(filter.approved) \cup RejectedIdeas(filter) = Range(filter.ideas)

\* C4 witness: a returned call that both approved and rejected an idea.
C4_Witness ==
    /\ filter.status = "returned"
    /\ filter.approved # <<>>
    /\ filter.rejected # <<>>

\* C5: an idea whose originalRepo is absent from the lookup map is placed in
\* approved as soon as the loop has passed it, and is never judged.
C5_UnknownRepoApproved ==
    \A k \in 1..Len(filter.ideas) :
        filter.ideas[k].originalRepo \notin filter.repoKeys =>
            /\ filter.ideas[k].id \notin JudgedIds
            /\ k < filter.i => filter.ideas[k] \in Range(filter.approved)
            /\ filter.ideas[k] \notin RejectedIdeas(filter)

\* C5 witness: a returned call that auto-approved an idea of an unknown repo
\* after rejecting a judged one.
C5_Witness ==
    /\ filter.status = "returned"
    /\ filter.rejected # <<>>
    /\ \E k \in 1..Len(filter.ideas) :
          /\ filter.ideas[k].originalRepo \notin filter.repoKeys
          /\ filter.ideas[k] \in Range(filter.approved)

\* Position of the idea numbered id in the input list.
InputPosition(id) ==
    CHOOSE k \in 1..Len(filter.ideas) : filter.ideas[k].id = id

\* The ideas of the list are in the order of the input list.
InInputOrder(ids) ==
    \A a, b \in 1..Len(ids) :
       a < b => InputPosition(ids[a]) < InputPosition(ids[b])

\* C25: filterIdeas judges sequentially in input order: a judge call starts
\* only after the previous one has settled, so at most one is in flight,
\* and approved and rejected each keep the input order.
C25_JudgesOneAtATime ==
    /\ Len(filter.inflight) <= 1
    /\ \A j \in 1..Len(calls) :
          /\ calls[j].op = (IF j % 2 = 1 THEN "judge" ELSE "judge settled")
          /\ j % 2 = 0 => calls[j].arg = calls[j - 1].arg
    /\ InInputOrder([j \in 1..((Len(calls) + 1) \div 2) |-> calls[2 * j - 1].arg[1]])
    /\ InInputOrder(Ids(filter.approved))
    /\ InInputOrder([k \in 1..Len(filter.rejected) |-> filter.rejected[k].idea.id])

\* A returned call that judged two ideas, rejected both and left none in
\* flight.
C25_Witness ==
    /\ filter.status = "returned"
    /\ Len(filter.rejected) = 2
    /\ Len(calls) = 4
    /\ filter.inflight = <<>>

\* ------------------------------------------------------------------------
\* SpecScout: one scoutTrends() call for every bounded search outcome
\* ------------------------------------------------------------------------

InitScout ==
    /\ scout \in {scoutTrendsCall(options) : options \in ScoutOptions}
    /\ store = NoStore
    /\ filter = NoFilter
    /\ jcall = NoJudgeCall
    /\ calls = <<>>
    /\ RunIdle
    /\ OraclesIdle

NextScout == ScoutSearch \/ ScoutSearchThrows \/ ScoutAnalyze

SpecScout == InitScout /\ [][NextScout]_vars

\* ------------------------------------------------------------------------
\* Properties of scoutTrends()
\* ------------------------------------------------------------------------

\* The windows from the requested one to the widest.
WindowsFrom(period) ==
    LET all == <<"daily", "weekly", "monthly">>
        first == CHOOSE k \in 1..3 : all[k] = period
    IN SubSeq(all, first, 3)

\* The searches made so far, in order.
Searches ==
    SelectSeq(calls, LAMBDA c : c.op = "getTrending")

\* C27: scouting widens before giving up: the windows are searched in the
\* order requested window, then each wider one, the search stops at the
\* first window that yields repos, and scoutTrends returns an empty result
\* only after the widest window has been searched.
C27_WidensBeforeGivingUp ==
    /\ Len(Searches) <= Len(WindowsFrom(scout.options.period))
    /\ \A k \in 1..Len(Searches) :
          /\ Searches[k].arg[1] = WindowsFrom(scout.options.period)[k]
          /\ k < Len(Searches) => Searches[k].arg[2] = "empty"
    /\ (scout.status = "returned" /\ scout.result = <<>>)
          => Searches[Len(Searches)].arg[1] = "monthly"

\* ------------------------------------------------------------------------
\* SpecStore: the save and load calls of one StateManager
\* ------------------------------------------------------------------------

InitStore ==
    /\ store = NoStore
    /\ scout = NoScout
    /\ filter = NoFilter
    /\ jcall = NoJudgeCall
    /\ calls = <<>>
    /\ RunIdle
    /\ OraclesIdle

NextStore == StoreSave \/ StoreLoad

SpecStore == InitStore /\ [][NextStore]_vars

\* ------------------------------------------------------------------------
\* Properties of StateManager
\* ------------------------------------------------------------------------

\* The saves whose write went through, among the first n.
Successful(n) ==
    SelectSeq(SubSeq(store.saves, 1, n), LAMBDA s : s.outcome = "written")

\* The state as its JSON text denotes it: dates as ISO-8601 strings.
AsJson(st) == [st EXCEPT !.startTime = [t |-> "string", iso |-> @.ms]]

\* C29: the snapshot is overwritten, not appended: after any sequence of
\* save calls load() returns the state of the most recent successful save,
\* its dates as ISO-8601 strings, and nothing of earlier snapshots; it
\* returns null when no snapshot has been written.
C29_LoadReturnsLastSuccessfulSave ==
    IsSet(store.loaded)
        => LET got == Get(store.loaded)
               done == Successful(got.after)
           IN got.value = IF done = <<>> THEN None
                          ELSE Some(AsJson(done[Len(done)].state))

\* The repos handed to rankByPotential, as analyzeRepo returned them.
AnalyzedInput ==
    LET done == SelectSeq(calls, LAMBDA c : c.op = "analyzeRepo"
                                            /\ c.arg[2] = "returned")
    IN [k \in 1..Len(done) |->
          [name |-> done[k].arg[1], ideaPotential |-> done[k].arg[3]]]

\* C31: rankByPotential returns a permutation of its input ordered by
\* ideaPotential descending, and leaves the input list unchanged.
C31_RankIsSortedPermutation ==
    scout.status = "returned"
        => /\ Len(scout.result) = Len(AnalyzedInput)
           /\ Range(scout.result) = Range(AnalyzedInput)
           /\ \A a, b \in 1..Len(scout.result) :
                 a < b => scout.result[a].ideaPotential
                             >= scout.result[b].ideaPotential
           /\ scout.analyzed = AnalyzedInput

\* Two repos analyzed lowest potential first were ranked.
C31_Witness ==
    /\ scout.status = "returned"
    /\ Len(AnalyzedInput) = 2
    /\ AnalyzedInput[1].ideaPotential < AnalyzedInput[2].ideaPotential
    /\ scout.result = <<AnalyzedInput[2], AnalyzedInput[1]>>

\* ------------------------------------------------------------------------
\* Properties of the judge feedback loop and of the research phase
\* ------------------------------------------------------------------------

\* The entries of the call log made by the operations ops, in order.
CallsOf(log, ops) == SelectSeq(log, LAMBDA c : c.op \in ops)

FilterCalls == CallsOf(calls, {"filterIdeas"})

RegenCalls == CallsOf(calls, {"regenerateFromFeedback"})

ResearchCalls == CallsOf(calls, {"research"})

\* How each research call ended, in order.
ResearchOutcomes ==
    CallsOf(calls, Recommendations \cup {"research threw", "research timed out"})

Researched == [k \in 1..Len(ResearchCalls) |-> ResearchCalls[k].arg[1]]

RunFailed == pc = "done" /\ ~Get(result).success

\* C6: when round 1 approved nothing and regeneration produced M > 0 ideas,
\* round 2 calls filterIdeas on exactly those M ideas, none of them an idea
\* of round 1.
C6_RoundTwoJudgesRegenerated ==
    LET fc == FilterCalls
    IN (Len(fc) >= 2 /\ regen.improved # <<>>) =>
          /\ fc[2].arg = Ids(regen.improved)
          /\ filter.ideas = regen.improved
          /\ Range(fc[2].arg) \cap Range(fc[1].arg) = {}

\* C6 witness: two ideas rejected in round 1, one regenerated idea judged in
\* round 2.
C6_Witness ==
    /\ Len(FilterCalls) = 2
    /\ Len(FilterCalls[1].arg) = 2
    /\ Len(regen.improved) = 1
    /\ filter.status = "returned"

SecondRoundApprovedNothing ==
    /\ Len(FilterCalls) = 2
    /\ filter.status = "returned"
    /\ filter.approved = <<>>

\* C7: filterIdeas is invoked at most twice and regeneration at most once;
\* after a second round that approved nothing the phase can only fail, in
\* phase judge-ideas, and no research call is ever made.
C7_LoopBounded ==
    LET fc == FilterCalls
    IN /\ Len(fc) <= 2
       /\ Len(RegenCalls) <= 1
       /\ (Len(fc) = 2 /\ filter.status = "returned" /\ filter.approved = <<>>) =>
             /\ pc \in {"await-filter", "round", "done"}
             /\ state.currentPhase = "judge-ideas"
             /\ ResearchCalls = <<>>
             /\ pc = "done" => (~Get(result).success /\ Len(state.errors) = 1)

\* C7 witness: a run that failed after its second round approved nothing.
C7_Witness == SecondRoundApprovedNothing /\ RunFailed /\ Len(RegenCalls) = 1

\* C8: once the judge phase has succeeded, state.ideas is the approved list
\* of the last judging round, in its order, and every researched idea is one
\* of them: none that was rejected, none that regeneration replaced.
C8_ResearchGetsApproved ==
    LET researched == Researched
        firstRound == Range(FilterCalls[1].arg)
        rejectedIds == {filter.rejected[j].idea.id : j \in 1..Len(filter.rejected)}
    IN (state.currentPhase = "research" \/ researched # <<>>) =>
          /\ filter.status = "returned"
          /\ state.ideas = Some(filter.approved)
          /\ \A k \in 1..Len(researched) :
                /\ researched[k] \in Range(Ids(filter.approved))
                /\ researched[k] \notin rejectedIds
                /\ regen.improved # <<>> => researched[k] \notin firstRound

\* C8 witness: two ideas rejected in round 1, two regenerated, one of them
\* approved in round 2 and researched.
C8_Witness ==
    /\ Len(FilterCalls) = 2
    /\ Len(FilterCalls[1].arg) = 2
    /\ Len(regen.improved) = 2
    /\ Len(filter.approved) = 1
    /\ Len(Researched) = 1

\* C9: ideas are researched in list order, each at most once; the selected
\* idea is the first, and only, idea whose research returned SHIP, and it is
\* the last idea researched.
C9_ResearchShortCircuits ==
    LET ideas == IF IsSet(state.ideas) THEN Get(state.ideas) ELSE <<>>
        researched == Researched
        outcomes == ResearchOutcomes
    IN /\ Len(researched) <= Len(ideas)
       /\ \A k \in 1..Len(researched) : researched[k] = ideas[k].id
       /\ Len(outcomes) <= Len(researched)
       /\ \A k \in 1..Len(outcomes) :
             /\ outcomes[k].arg[1] = researched[k]
             /\ outcomes[k].op = "SHIP" =>
                   /\ k = Len(researched)
                   /\ state.selectedIdea = Some(ideas[k])
       /\ IsSet(state.selectedIdea) =>
             /\ outcomes # <<>>
             /\ outcomes[Len(outcomes)].op = "SHIP"
             /\ Len(outcomes) = Len(researched)

\* C9 witness: the first of two ideas shipped and was selected, and the run
\* ended without the second ever being researched.
C9_Witness ==
    /\ IsSet(state.selectedIdea)
    /\ Len(Researched) = 1
    /\ Len(Get(state.ideas)) = 2
    /\ pc = "done"

\* C10: an error, a timeout or a non-SHIP report for one idea moves the loop
\* to the next idea; the run fails in phase research only after every idea
\* was researched without a SHIP, with the exhaustion error.
C10_ResearchFailuresNonFatal ==
    LET outcomes == ResearchOutcomes
    IN /\ pc = "research-loop" =>
             /\ rIdx = Len(outcomes) + 1
             /\ result = None
             /\ state.errors = <<>>
       /\ (RunFailed /\ state.currentPhase = "research") =>
             /\ Len(outcomes) = Len(Get(state.ideas))
             /\ Len(ResearchCalls) = Len(outcomes)
             /\ \A k \in 1..Len(outcomes) : outcomes[k].op # "SHIP"
             /\ Get(Get(result).error) = <<"No shippable ideas after research">>
             /\ Get(result).state.currentPhase = "research"

\* C10 witness: research of the first idea timed out, research of the second
\* threw, and the run failed in phase research.
C10_Witness ==
    /\ RunFailed
    /\ state.currentPhase = "research"
    /\ Len(ResearchOutcomes) = 2
    /\ ResearchOutcomes[1].op = "research timed out"
    /\ ResearchOutcomes[2].op = "research threw"

\* ------------------------------------------------------------------------
\* Properties of the implement phase and of the dry-run flag
\* ------------------------------------------------------------------------

\* How the oracle calls of a single-call phase ended, oldest first.
PhaseOutcomes(phase) ==
    SelectSeq(CallsOf(calls, {"returned", "threw", "timed out"}),
              LAMBDA c : c.arg[1] = phase)

\* An outcome that makes its phase throw: an error, a timeout, or a value
\* the phase rejects.
IsFailure(c) ==
    \/ c.op \in {"threw", "timed out"}
    \/ /\ c.op = "returned"
       /\ c.arg[1] # "announce"
       /\ c.arg[2] \in {"empty", "failed", "failure"}

ImplementFailed ==
    \E k \in 1..Len(PhaseOutcomes("implement")) :
       IsFailure(PhaseOutcomes("implement")[k])

DeployOrAnnounceCalls == CallsOf(calls, {"deploy", "announce"})

\* C11: when the implementer throws, times out or returns status 'failed',
\* the run returns success=false with currentPhase 'implement', leaves
\* state.implementation unset and never invokes deploy or announce.
C11_ImplementFailureAborts ==
    ImplementFailed =>
        /\ IsSet(result)
        /\ ~Get(result).success
        /\ Get(result).state.currentPhase = "implement"
        /\ Get(result).state.implementation = None
        /\ state.implementation = None
        /\ DeployOrAnnounceCalls = <<>>

\* C11 witness: the implementer returned status 'failed' in a run whose
\* flags would have let deploy and announce run.
C11_Witness ==
    /\ ImplementFailed
    /\ PhaseOutcomes("implement")[1] =
          [op |-> "returned", arg |-> <<"implement", "failed">>]
    /\ config = [dryRun |-> FALSE, skipGithub |-> FALSE, skipTwitter |-> FALSE]
    /\ IsSet(result)

\* C12: with dry-run enabled neither deploy nor announce is ever invoked,
\* whatever the two skip flags say, and currentPhase never becomes 'deploy'
\* or 'announce'.
C12_DryRunNeverDeploys ==
    config.dryRun =>
        /\ DeployOrAnnounceCalls = <<>>
        /\ state.currentPhase \notin {"deploy", "announce"}

\* C12 witness: a dry run with both skip flags off that completed.
C12_Witness ==
    /\ config = [dryRun |-> TRUE, skipGithub |-> FALSE, skipTwitter |-> FALSE]
    /\ IsSet(result)
    /\ Get(result).success
    /\ IsSet(state.implementation)

\* ------------------------------------------------------------------------
\* Properties of the phase sequence
\* ------------------------------------------------------------------------

ImplementReturnedPartial ==
    \E k \in 1..Len(PhaseOutcomes("implement")) :
       PhaseOutcomes("implement")[k] =
          [op |-> "returned", arg |-> <<"implement", "partial">>]

\* Deploy or announce made run() throw.
LaterPhaseFailed ==
    \/ \E k \in 1..Len(PhaseOutcomes("deploy")) :
          IsFailure(PhaseOutcomes("deploy")[k])
    \/ \E k \in 1..Len(PhaseOutcomes("announce")) :
          IsFailure(PhaseOutcomes("announce")[k])

PhaseRank(phase) ==
    CASE phase = "initialization" -> 0
      [] phase = "scout-trends" -> 1
      [] phase = "generate-ideas" -> 2
      [] phase = "judge-ideas" -> 3
      [] phase = "research" -> 4
      [] phase = "implement" -> 5
      [] phase = "deploy" -> 6
      [] phase = "announce" -> 7

\* The phase a successful run ends in, given the flags.
LastPhase ==
    IF config.dryRun THEN "implement"
    ELSE IF ~config.skipTwitter THEN "announce"
    ELSE IF ~config.skipGithub THEN "deploy"
    ELSE "implement"

SingleCallOracles ==
    {"scoutTrends", "generateOriginalIdeas", "implement", "deploy", "announce"}

OraclesCalledOnce ==
    \A op \in SingleCallOracles : Len(CallsOf(calls, {op})) <= 1

\* C17: currentPhase only moves forward through the seven phases: each of
\* the first five is entered from the one before it, deploy and announce
\* are passed over only when the flags say so, no phase is entered twice,
\* and each single-call oracle is invoked at most once.
C17_PhasesMoveForward ==
    [][/\ state'.currentPhase # state.currentPhase
          => LET a == PhaseRank(state.currentPhase)
                 b == PhaseRank(state'.currentPhase)
             IN \/ b = a + 1 /\ b <= 5
                \/ a = 5 /\ b = 6 /\ ~config.dryRun /\ ~config.skipGithub
                \/ /\ a = 5 /\ b = 7
                   /\ ~config.dryRun /\ config.skipGithub /\ ~config.skipTwitter
                \/ a = 6 /\ b = 7 /\ ~config.dryRun /\ ~config.skipTwitter
       /\ (IsSet(result') /\ Get(result').success)
          => /\ state'.currentPhase = LastPhase
             /\ (~config.dryRun /\ ~config.skipGithub)
                   => Len(CallsOf(calls', {"deploy"})) = 1
       /\ OraclesCalledOnce']_vars

\* C17 witness: a successful run that skipped deploy by its flag and went
\* from implement to announce.
C17_Witness ==
    /\ pc = "done"
    /\ Get(result).success
    /\ config = [dryRun |-> FALSE, skipGithub |-> TRUE, skipTwitter |-> FALSE]
    /\ state.currentPhase = "announce"
    /\ Len(CallsOf(calls, {"announce"})) = 1

\* Where run() stands between two phases, or after its return.
PhaseBoundaries ==
    {"phase2", "phase2b", "phase3", "phase4", "phase5", "phase6", "finish",
     "done"}

\* C18: between the end of a phase and the start of the next, or the return
\* of the RunResult, save has been called with the current state: the last
\* snapshot handed to StateManager is the state the RunResult carries, and
\* it is the content of the file when that write went through.
C18_CheckpointAfterEveryPhase ==
    pc \in PhaseBoundaries
        => /\ snapshot.arg = Some(state)
           /\ snapshot.ok => snapshot.file = Some(Text(stringify(state)))
           /\ pc = "done" => snapshot.arg = Some(Get(result).state)

\* C18 witness: a failed run whose last checkpoint, holding the recorded
\* error, was written.
C18_Witness ==
    /\ RunFailed
    /\ state.currentPhase = "research"
    /\ snapshot.ok
    /\ snapshot.file = Some(Text(stringify(Get(result).state)))
    /\ Len(Get(snapshot.file).value.errors) = 1

\* The phase an oracle or collaborator call belongs to.
CallRank(op) ==
    CASE op = "scoutTrends" -> 1
      [] op = "generateOriginalIdeas" -> 2
      [] op \in {"filterIdeas", "judge", "regenerateFromFeedback",
                 "pi.execute"} -> 3
      [] op = "research" -> 4
      [] op = "implement" -> 5
      [] op = "deploy" -> 6
      [] op = "announce" -> 7
      [] OTHER -> 0

\* C19: a failing phase aborts the run: the RunResult has success=false and
\* the error message, its state is left in the failing phase, holds the one
\* entry {phase, error} and was handed to save, and no oracle of a later
\* phase was invoked; a single-call phase whose oracle threw, timed out or
\* returned a value the phase rejects always ends the run this way.
C19_FailureAbortsRun ==
    LET outcomes == CallsOf(calls, {"returned", "threw", "timed out"})
    IN /\ \A k \in 1..Len(outcomes) :
             IsFailure(outcomes[k])
                => /\ RunFailed
                   /\ k = Len(outcomes)
                   /\ state.currentPhase = outcomes[k].arg[1]
       /\ RunFailed
             => LET st == Get(result).state
                IN /\ st = state
                   /\ IsSet(Get(result).error)
                   /\ st.errors = <<[phase |-> st.currentPhase,
                                     error |-> Get(Get(result).error)]>>
                   /\ snapshot.arg = Some(st)
                   /\ \A k \in 1..Len(calls) :
                         CallRank(calls[k].op) <= PhaseRank(st.currentPhase)

\* C19 witness: the deployer exceeded its budget in a run that would have
\* announced; the run failed in phase deploy without calling the announcer.
C19_Witness ==
    /\ RunFailed
    /\ state.currentPhase = "deploy"
    /\ ~config.skipTwitter
    /\ calls[Len(calls)] = [op |-> "timed out", arg |-> <<"deploy">>]

ResultFields ==
    {"trends", "ideas", "selectedIdea", "research", "implementation",
     "deployment", "announcement"}

\* The step in which regenerateFromFeedback returns to the judge loop.
IsRegenerationStep == pc = "regen" /\ pc' = "round"

\* The step in which a judging round stores its approved ideas.
IsApprovalStep ==
    /\ pc = "await-filter"
    /\ pc' = "phase3"
    /\ state'.ideas = Some(filter.approved)

\* C20 as stated: a result field that is set keeps its value, except that
\* the regeneration step may replace ideas.
C20_FieldsKeptButRegeneration ==
    [][\A f \in ResultFields :
          IsSet(state[f])
             => \/ state'[f] = state[f]
                \/ f = "ideas" /\ IsSet(state'[f]) /\ IsRegenerationStep]_vars

\* C20 amended: a result field that is set stays set and keeps its value,
\* except that within the judge-ideas phase ideas may be replaced, by the
\* regeneration step or by the approved ideas of a judging round.
C20_FieldsKeptButJudgeLoop ==
    [][\A f \in ResultFields :
          IsSet(state[f])
             => \/ state'[f] = state[f]
                \/ /\ f = "ideas"
                   /\ IsSet(state'[f])
                   /\ state.currentPhase = "judge-ideas"
                   /\ IsRegenerationStep \/ IsApprovalStep]_vars

\* C20 witness: of two judged ideas one was approved, and state.ideas now
\* holds that one only, with the trends untouched.
C20_Witness ==
    /\ pc = "phase3"
    /\ Len(filter.ideas) = 2
    /\ Len(filter.approved) = 1
    /\ state.ideas = Some(filter.approved)
    /\ state.trends = Some(<<"o/r1", "o/r2">>)

\* ------------------------------------------------------------------------
\* Properties of deploy, announce and research calls
\* ------------------------------------------------------------------------

\* C21: a failure of the announce phase does not fail the run: whether the
\* announcer returns success=false, throws or exceeds its budget, the run
\* returns success=true and state.errors gets no entry.
C21_AnnounceFailureNonFatal ==
    \A k \in 1..Len(PhaseOutcomes("announce")) :
       LET c == PhaseOutcomes("announce")[k]
       IN (c.op \in {"threw", "timed out"} \/ c.arg[2] = "failure")
             => /\ state.errors = <<>>
                /\ IsSet(result) => Get(result).success

\* C22: whenever the announcer is invoked, state.deployment holds the result
\* of a deploy call of the same run that returned success=true, for every
\* combination of the three flags.
C22_AnnounceNeedsDeployment ==
    CallsOf(calls, {"announce"}) # <<>>
        => /\ IsSet(state.deployment)
           /\ Get(state.deployment).success
           /\ PhaseOutcomes("deploy") =
                 <<[op |-> "returned", arg |-> <<"deploy", "success">>]>>

\* The research calls that have not settled: the one awaited and those
\* whose budget expired.
ResearchInFlight ==
    {op \in abandoned : op[1] = "research"}
    \cup (IF pc = "await-research"
          THEN {<<"research", Get(state.ideas)[rIdx].id>>} ELSE {})

\* C24: at no moment of a run are two research calls in flight together,
\* whatever the research outcomes, per-idea timeouts included.
C24_OneResearchAtATime == Cardinality(ResearchInFlight) <= 1

\* ------------------------------------------------------------------------
\* Properties of the catch block of run()
\* ------------------------------------------------------------------------

\* The steps of run() itself: Next without the late settling of operations
\* that run() has stopped waiting for.
RunStep ==
    \/ Phase1Start \/ Phase1Resolve \/ Phase2Start \/ Phase2Resolve
    \/ OracleThrows \/ BudgetExceeded
    \/ Phase2bStart \/ RoundTop \/ JudgeStep \/ RoundResolve
    \/ RoundThrows \/ RoundBudgetExceeded \/ RegenStep \/ RegenReturn
    \/ Phase3Start \/ ResearchNext \/ ResearchResolve
    \/ ResearchThrows \/ ResearchBudgetExceeded
    \/ Phase4Start \/ Phase4Resolve \/ Phase5Start \/ Phase5Resolve
    \/ Phase6Start \/ Phase6Resolve \/ Complete

\* C23: run() never rejects, whatever the oracles do and whichever
\* checkpoint writes fail: it goes on until it has returned a RunResult, and
\* a failed run has recorded its one fatal error in state.errors, has made
\* its last save call with that state and returns that state.
C23_RunNeverRejects ==
    /\ pc # "rejected"
    /\ (pc = "done") = IsSet(result)
    /\ pc # "done" => ENABLED RunStep
    /\ RunFailed
         => /\ Len(state.errors) = 1
            /\ Some(state.errors[1].error) = Get(result).error
            /\ snapshot.arg = Some(state)
            /\ Get(result).state = state

\* A run failed and returned although none of its checkpoint writes, the
\* one of the catch block included, went through.
C23_Witness ==
    /\ RunFailed
    /\ snapshot.file = None
    /\ ~snapshot.ok
    /\ IsSet(state.selectedIdea)

\* ------------------------------------------------------------------------
\* Properties of the time budgets of a run
\* ------------------------------------------------------------------------

\* The calls that leave the orchestrator for an oracle or a collaborator.
CollaboratorOps ==
    {"scoutTrends", "generateOriginalIdeas", "filterIdeas", "judge",
     "pi.execute", "research", "implement", "deploy", "announce"}

\* The step makes a collaborator call.
MakesCollaboratorCall ==
    /\ Len(calls') > Len(calls)
    /\ \E k \in (Len(calls) + 1)..Len(calls') : calls'[k].op \in CollaboratorOps

\* C26: every collaborator call of a run, the regeneration call of the judge
\* feedback loop included, is made inside TimeBudget.run: the step that
\* makes the call enters, or is taken inside, an awaited TimeBudget.run.
C26_CallsInsideTimeBudget ==
    [][MakesCollaboratorCall
          => IsSet(budgetInForce(pc)) \/ IsSet(budgetInForce(pc'))]_vars

\* ------------------------------------------------------------------------
\* Properties of the RunResult
\* ------------------------------------------------------------------------

\* C28: the RunResult of every run, successful or failed, carries the
\* success flag, the duration and the final state; its idea is
\* state.selectedIdea whenever one was selected, its repoUrl is
\* state.deployment.repoUrl whenever deploy produced one, its tweetUrl is
\* state.announcement.tweetUrl whenever announce produced one.
C28_ResultCarriesOutputs ==
    IsSet(result)
        => LET r == Get(result)
           IN /\ r.success \in BOOLEAN
              /\ r.totalTime = totalTime
              /\ r.state = state
              /\ IsSet(state.selectedIdea) => r.idea = state.selectedIdea
              /\ IsSet(state.deployment) => r.repoUrl = repoUrlOf(state)
              /\ IsSet(tweetUrlOf(state)) => r.tweetUrl = tweetUrlOf(state)

\* ------------------------------------------------------------------------
\* Properties of regenerateFromFeedback
\* ------------------------------------------------------------------------

\* The source repos of the rejected batch handed to regenerateFromFeedback.
RejectedRepos ==
    {filter.rejected[k].idea.originalRepo : k \in 1..Len(filter.rejected)}

\* The repos the regeneration collaborator was called for, in call order.
RegeneratedFor ==
    LET made == CallsOf(calls, {"pi.execute"})
    IN [k \in 1..Len(made) |-> made[k].arg[1]]

\* C30: regeneration makes exactly one collaborator call per distinct source
\* repo of the rejected batch, each yielding at most one new idea: while it
\* runs the calls made are distinct repos of the batch and the new ideas
\* are no more than the calls, and when it returns every rejected idea's
\* repo has had its call.
C30_OneCallPerSourceRepo ==
    pc = "regen"
        => /\ Range(RegeneratedFor) \subseteq RejectedRepos
           /\ Cardinality(Range(RegeneratedFor)) = Len(RegeneratedFor)
           /\ Len(regen.improved) <= Len(RegeneratedFor)
           /\ regen.g > Len(regen.groups)
                 => /\ Range(RegeneratedFor) = RejectedRepos
                    /\ Len(regen.improved) <= Cardinality(RejectedRepos)

\* Two rejected ideas of one repo were regenerated with one call.
C30_Witness ==
    /\ pc = "regen"
    /\ regen.g > Len(regen.groups)
    /\ Len(filter.rejected) = 2
    /\ Cardinality(RejectedRepos) = 1
    /\ Len(RegeneratedFor) = 1
    /\ Len(regen.improved) = 1

\* ------------------------------------------------------------------------
\* Properties of the run's state: selection, phase inputs, errors
\* ------------------------------------------------------------------------

\* C34: whenever state.selectedIdea is set, state.research is set, its
\* recommendation is SHIP, it is the report the research call for that idea
\* returned, and the selected idea is one of state.ideas, the approved list.
C34_SelectedIdeaHasShipReport ==
    IsSet(state.selectedIdea) =>
       LET idea == Get(state.selectedIdea)
           outcomes == ResearchOutcomes
       IN /\ IsSet(state.research)
          /\ Get(state.research).recommendation = "SHIP"
          /\ Get(state.research).idea = idea.id
          /\ ResearchCalls[Len(ResearchCalls)].arg = <<idea.id>>
          /\ outcomes[Len(outcomes)] = [op |-> "SHIP", arg |-> <<idea.id>>]
          /\ IsSet(state.ideas)
          /\ idea \in Range(Get(state.ideas))
          /\ Get(state.ideas) = filter.approved

\* C34 witness: the first approved idea was researched without a SHIP, the
\* second shipped and was selected.
C34_Witness ==
    /\ IsSet(state.selectedIdea)
    /\ Len(ResearchOutcomes) = 2
    /\ Get(state.selectedIdea) = Get(state.ideas)[2]
    /\ Get(state.research).recommendation = "SHIP"

\* The positions of run() at which each oracle has been invoked or is about
\* to be.
Judging == {"phase2b", "round", "await-filter", "regen"}

Researching == {"phase3", "research-loop", "await-research"}

NonEmptyList(field) == IsSet(field) /\ Len(Get(field)) >= 1

\* C35: each phase starts only with its inputs present: the generator with
\* a non-empty state.trends, judging and research with a non-empty
\* state.ideas, the implementer with state.selectedIdea and state.research
\* set, the deployer with state.implementation set and not 'failed'.
C35_PhaseInputsPresent ==
    /\ pc \in {"phase2", "await-generate"} => NonEmptyList(state.trends)
    /\ pc \in Judging \cup Researching => NonEmptyList(state.ideas)
    /\ pc = "await-filter" => filter.ideas # <<>>
    /\ pc \in {"phase4", "await-implement"} =>
          /\ IsSet(state.selectedIdea)
          /\ IsSet(state.research)
    /\ pc \in {"phase5", "await-deploy"} =>
          /\ IsSet(state.implementation)
          /\ Get(state.implementation).status # "failed"

\* C35 witness: the deployer was invoked on a partial implementation after
\* a second judging round.
C35_Witness ==
    /\ pc = "await-deploy"
    /\ Get(state.implementation).status = "partial"
    /\ Len(FilterCalls) = 2

\* The events the run survives: a research candidate that failed or was not
\* SHIP, a partial implementation, an announce that returned success=false.
NonFatalEvents ==
    {k \in 1..Len(calls) :
        \/ calls[k].op \in {"research threw", "research timed out", "PIVOT",
                            "ABORT"}
        \/ calls[k] = [op |-> "returned", arg |-> <<"implement", "partial">>]
        \/ calls[k] = [op |-> "returned", arg |-> <<"announce", "failure">>]}

\* C36: state.errors is empty in every state of a run that has not failed
\* and holds exactly one entry in the final state of a failed run; the
\* non-fatal events add no entry.
C36_ErrorsOnlyOnFailure ==
    /\ ~RunFailed => state.errors = <<>>
    /\ RunFailed =>
          /\ Len(state.errors) = 1
          /\ Get(result).state.errors = state.errors
          /\ state.errors[1].error = Get(Get(result).error)

\* C36 witness: a research candidate failed, the next one shipped, the
\* implementation was partial, and the run then failed in deploy with one
\* entry.
C36_Witness ==
    /\ RunFailed
    /\ Cardinality(NonFatalEvents) = 2
    /\ ImplementReturnedPartial
    /\ state.errors = <<[phase |-> "deploy", error |-> <<"Deployment failed">>]>>

\* Regeneration was called and returned without a new idea.
RegenerationCameBackEmpty ==
    /\ Len(RegenCalls) = 1
    /\ pc # "regen"
    /\ regen.improved = <<>>

\* C37: when round 1 approves nothing and regeneration returns no new idea,
\* the judge phase does not fail at once: round 2 judges the unchanged
\* original ideas, and the ideas that second judging approves go on to
\* research.
C37_EmptyRegenerationRejudges ==
    LET fc == FilterCalls
    IN RegenerationCameBackEmpty =>
          /\ pc = "round" /\ Len(fc) = 1 =>
                /\ round < MAX_ROUNDS
                /\ result = None
                /\ Ids(Get(state.ideas)) = fc[1].arg
          /\ pc = "done" => Len(fc) = 2
          /\ Len(fc) = 2 =>
                /\ fc[2].arg = fc[1].arg
                /\ (filter.status = "returned" /\ filter.approved # <<>>
                       /\ pc # "await-filter") =>
                      /\ state.ideas = Some(filter.approved)
                      /\ state.currentPhase # "judge-ideas" \/ pc = "phase3"
                      /\ \A k \in 1..Len(Researched) :
                            Researched[k] = filter.approved[k].id

\* C37 witness: regeneration returned nothing, round 2 approved one of the
\* original ideas and it was researched.
C37_Witness ==
    /\ RegenerationCameBackEmpty
    /\ Len(FilterCalls) = 2
    /\ filter.approved # <<>>
    /\ Len(Researched) = 1

\* The oracle calls a run may make: one per single-call phase, two judging
\* rounds, one research call per idea of state.ideas.
CallsBounded ==
    /\ OraclesCalledOnce
    /\ Len(FilterCalls) <= MAX_ROUNDS
    /\ Len(RegenCalls) <= 1
    /\ ResearchCalls # <<>> => Len(ResearchCalls) <= Len(Get(state.ideas))

RunReturned == pc = "done" /\ IsSet(result)

\* C38: every run terminates: when the TimeBudget timers fire and the
\* regeneration call and the checkpoint writes settle, run() returns a
\* RunResult after a bounded number of oracle calls, even if a phase's
\* oracle never settles.
C38_RunTerminates == <>RunReturned /\ []CallsBounded

\* C38 witness: run() returned while the implementer, whose budget expired,
\* has still not settled.
C38_Witness ==
    /\ RunReturned
    /\ <<"implement", 0>> \in abandoned
    /\ calls[Len(calls)] = [op |-> "timed out", arg |-> <<"implement">>]

\* ------------------------------------------------------------------------
\* ResearchMaster.synthesiseDecision
\* ------------------------------------------------------------------------

\* most technical risks handed to one decision
MaxRisks == 2

\* The severities tried; 'low' is counted by no rule, as 'medium' is.
Severities == {"medium", "high", "blocker"}

RiskLists == UNION {[1..n -> Severities] : n \in 0..MaxRisks}

\* The findings synthesiseDecision is called with: existence.isNovel,
\* deps.overallRisk, the severities of risks, and whether the array fields
\* the prompt joins and maps (blockers, keyTakeaways, architecturePatterns)
\* are arrays: they are copied unchecked from earlier collaborator replies.
Findings ==
    [isNovel : BOOLEAN, overallRisk : {"low", "medium", "high"},
     risks : RiskLists, wellTyped : BOOLEAN]

\* recommendation of the reply: a JSON string, a JSON number, absent.
RecommendationJson ==
    [t : {"string"}, v : {"SHIP", "PIVOT", "ABORT", "ship", "Pivot", "MAYBE", ""}]
    \cup {[t |-> "number", v |-> "1"], [t |-> "number", v |-> "0"],
          [t |-> "absent", v |-> ""]}

\* confidence of the reply: a JSON number or absent.
ConfidenceJson ==
    {[t |-> "number", v |-> 150], [t |-> "absent", v |-> 0]}

DecisionObjects == [recommendation : RecommendationJson, confidence : ConfidenceJson]

EmptyDecisionObject ==
    [recommendation |-> [t |-> "absent", v |-> ""],
     confidence |-> [t |-> "absent", v |-> 0]]

\* A decision reply: segments as in a judge reply, and "fence" for a line
\* of three backquotes.
FencedKinds == SegKinds \cup {"fence"}

FencedShapes == UNION {[1..n -> FencedKinds] : n \in 0..MaxSegs}

\* The replies tried; a text without an object segment carries none.
DecisionReplies ==
    {reply \in [how : PiEndings,
                raw : [segs : FencedShapes, obj : DecisionObjects]] :
        reply.raw.obj # EmptyDecisionObject
           => \E k \in 1..Len(reply.raw.segs) : reply.raw.segs[k] = "obj"}

\* JSON.parse of a text: one complete object parses to itself, "{" directly
\* followed by "}" is the empty object, anything else is a SyntaxError.
JSONparse(segs, obj) ==
    IF segs = <<"obj">> THEN Some(obj)
    ELSE IF segs = <<"open", "close">> THEN Some(EmptyDecisionObject)
    ELSE None

\* text.match of the code-block pattern: the text between the first fence
\* and the next one.
fenceMatch(segs) ==
    LET fences == {i \in 1..Len(segs) : segs[i] = "fence"}
        first == CHOOSE i \in fences : \A j \in fences : i <= j
        next == CHOOSE i \in fences \ {first} : \A j \in fences \ {first} : i <= j
    IN IF Cardinality(fences) < 2 THEN None
       ELSE Some(SubSeq(segs, first + 1, next - 1))

\* parseJSON: the whole text, else the first code block, else the text from
\* the first { to the last }, else null.
parseJSON(raw) ==
    LET whole == JSONparse(raw.segs, raw.obj)
        block == fenceMatch(raw.segs)
        inBlock == IF IsSet(block) THEN JSONparse(Get(block), raw.obj) ELSE None
        braces == jsonMatch(raw.segs)
        inBraces == IF IsSet(braces) THEN JSONparse(Get(braces), raw.obj) ELSE None
    IN IF IsSet(whole) THEN whole
       ELSE IF IsSet(inBlock) THEN inBlock
       ELSE inBraces

\* String.prototype.toUpperCase on the strings tried.
toUpperCase(str) ==
    CASE str = "ship" -> "SHIP"
      [] str = "Pivot" -> "PIVOT"
      [] OTHER -> str

isRecommendation_Any(rec) == TRUE

\* ['SHIP', 'PIVOT', 'ABORT'].includes(rec)
isRecommendation(rec) == rec \in {"SHIP", "PIVOT", "ABORT"}

\* Math.max(0, Math.min(100, parsed.confidence ?? 50))
clampConfidence(c) == IF c.t = "number" THEN Max(0, Min(100, c.v)) ELSE 50

severityCount(risks, severity) ==
    Cardinality({k \in 1..Len(risks) : risks[k] = severity})

heuristicDecision(findings) ==
    LET blockers == severityCount(findings.risks, "blocker")
        highRisks == severityCount(findings.risks, "high")
    IN IF blockers > 0
       THEN [recommendation |-> "ABORT", confidence |-> 90, from |-> "heuristic"]
       ELSE IF ~findings.isNovel
       THEN [recommendation |-> "PIVOT", confidence |-> 70, from |-> "heuristic"]
       ELSE IF highRisks > 1 \/ findings.overallRisk = "high"
       THEN [recommendation |-> "PIVOT", confidence |-> 65, from |-> "heuristic"]
       ELSE [recommendation |-> "SHIP",
             confidence |-> Max(50, 85 - highRisks * 10),
             from |-> "heuristic"]

\* The prompt template joins and maps array fields of the findings before
\* the try block: a TypeError when one of them is no array.
decisionPromptThrows(findings) == ~findings.wellTyped

\* The try block of synthesiseDecision and the fallback after it, given how
\* the collaborator call ended and the text it produced. toUpperCase of a
\* recommendation that is no string is a TypeError, caught like a failed
\* call.
decide(findings, how, raw) ==
    LET piResult == piExecute(how, raw)
        parsed == IF piResult.success /\ piResult.output.segs # <<>>
                  THEN parseJSON(piResult.output) ELSE None
        named == IsSet(parsed)
                 /\ Get(parsed).recommendation.t # "absent"
                 /\ Get(parsed).recommendation.v \notin {"", "0"}
    IN IF how = "exception" \/ ~named
          \/ Get(parsed).recommendation.t # "string"
       THEN heuristicDecision(findings)
       ELSE LET rec == toUpperCase(Get(parsed).recommendation.v)
            IN IF isRecommendation(rec)
               THEN [recommendation |-> rec,
                     confidence |-> clampConfidence(Get(parsed).confidence),
                     from |-> "reply"]
               ELSE heuristicDecision(findings)

synthesiseDecisionCall(findings) ==
    [status |-> "called", findings |-> findings, reply |-> None,
     result |-> None]

\* The prompt is built and this.llm.execute is called.
DecisionPrompt ==
    /\ decision.status = "called"
    /\ decision' = [decision EXCEPT
                      !.status = IF decisionPromptThrows(decision.findings)
                                 THEN "threw" ELSE "awaiting"]
    /\ UNCHANGED <<jcall, filter, calls, runVars, scout, store, researcher,
                   implementer, generator>>

\* The collaborator call settles and synthesiseDecision returns.
DecisionSettles ==
    /\ decision.status = "awaiting"
    /\ \E reply \in DecisionReplies :
          decision' = [decision EXCEPT
                         !.status = "returned",
                         !.reply = Some(reply),
                         !.result = Some(decide(decision.findings, reply.how,
                                                reply.raw))]
    /\ UNCHANGED <<jcall, filter, calls, runVars, scout, store, researcher,
                   implementer, generator>>

InitDecision ==
    /\ decision \in {synthesiseDecisionCall(findings) : findings \in Findings}
    /\ researcher = NoResearcher
    /\ implementer = NoImplementer
    /\ generator = NoGenerator
    /\ scout = NoScout
    /\ store = NoStore
    /\ filter = NoFilter
    /\ jcall = NoJudgeCall
    /\ calls = <<>>
    /\ RunIdle

NextDecision == DecisionPrompt \/ DecisionSettles

SpecDecision == InitDecision /\ [][NextDecision]_vars

\* The recommendation a reply names: the text of its recommendation field
\* in upper case, when the call succeeded and the reply parses to an object
\* with a non-empty string there.
NamedIn(reply) ==
    LET parsed == parseJSON(reply.raw)
    IN IF /\ reply.how = "done"
          /\ reply.raw.segs # <<>>
          /\ IsSet(parsed)
          /\ Get(parsed).recommendation.t = "string"
          /\ Get(parsed).recommendation.v # ""
       THEN Some(toUpperCase(Get(parsed).recommendation.v))
       ELSE None

\* The rule-based decision as the findings determine it.
RuleRecommendation(findings) ==
    LET has(severity) == \E k \in 1..Len(findings.risks) :
                            findings.risks[k] = severity
        twoHigh == \E j, k \in 1..Len(findings.risks) :
                      /\ j # k
                      /\ findings.risks[j] = "high"
                      /\ findings.risks[k] = "high"
    IN IF has("blocker") THEN "ABORT"
       ELSE IF ~findings.isNovel \/ twoHigh \/ findings.overallRisk = "high"
       THEN "PIVOT"
       ELSE "SHIP"

\* C33: a reply that is missing, unparseable or names no recommendation of
\* SHIP/PIVOT/ABORT makes synthesiseDecision return the heuristic decision
\* (ABORT on a blocker risk, else PIVOT when the idea is not novel, more
\* than one high risk exists or dependency risk is high, else SHIP); the
\* recommendation returned is always one of SHIP, PIVOT, ABORT.
C33_BadReplyFallsBack ==
    decision.status = "returned" =>
       LET named == NamedIn(Get(decision.reply))
           out == Get(decision.result)
           good == IsSet(named) /\ Get(named) \in {"SHIP", "PIVOT", "ABORT"}
       IN /\ out.recommendation \in {"SHIP", "PIVOT", "ABORT"}
          /\ ~good =>
                /\ out.from = "heuristic"
                /\ out.recommendation = RuleRecommendation(decision.findings)
          /\ good => out.recommendation = Get(named)

\* C33 witness: the reply named MAYBE inside a code block, and the decision
\* for a novel idea with one blocker risk was the heuristic ABORT.
C33_Witness ==
    /\ decision.status = "returned"
    /\ NamedIn(Get(decision.reply)) = Some("MAYBE")
    /\ Get(decision.reply).raw.segs[1] = "fence"
    /\ decision.findings.isNovel
    /\ Get(decision.result).recommendation = "ABORT"

\* ------------------------------------------------------------------------
\* IdeaGenerator.generateOriginalIdeas
\* ------------------------------------------------------------------------

\* most trending repos handed to the generator
MaxTrending == 4

\* A repo's description, as far as inferDependencies reads it: the keyword
\* groups it contains; None is a repo without description.
DescriptionWords == {"api", "cli", "json"}

RepoDescriptions ==
    {None, Some({}), Some({"cli"}), Some(DescriptionWords)}

\* The repos lists tried; a repo is known by its position and description.
TrendingLists == UNION {[1..n -> RepoDescriptions] : n \in 0..MaxTrending}

\* inferDependencies: one dependency per keyword group found in
\* (repo.description || '').toLowerCase().
inferDependencies(description) ==
    LET desc == IF IsSet(description) THEN Get(description) ELSE {}
    IN (IF "api" \in desc THEN <<"node-fetch">> ELSE <<>>)
       \o (IF "cli" \in desc THEN <<"commander">> ELSE <<>>)
       \o (IF "json" \in desc THEN <<"zod">> ELSE <<>>)

\* complementaryStrategy(repo): the template idea, with the fields that
\* validateIdea reads.
complementaryStrategy(k, description) ==
    [origin |-> "template", repo |-> k,
     strategy |-> "complementary",
     dependencies |-> <<"commander", "chalk">> \o inferDependencies(description),
     priorities |-> <<"must", "must", "should">>,
     complexity |-> "moderate",
     estimatedHours |-> 5,
     slopFactor |-> 70]

validateIdea_HalfConfident(idea) ==
    [isBuildable |-> TRUE, confidence |-> 50]

validateIdea(idea) ==
    LET tooLong == idea.estimatedHours > 8
        tooManyDeps == Len(idea.dependencies) > 5
        tooManyMusts == Cardinality({k \in 1..Len(idea.priorities) :
                                        idea.priorities[k] = "must"}) > 3
        complex == idea.complexity = "complex"
        concerns == Cardinality({c \in {<<1, tooLong>>, <<2, tooManyDeps>>,
                                        <<3, tooManyMusts>>, <<4, complex>>} :
                                    c[2]})
        confidence == 70 - (IF tooLong THEN 20 ELSE 0)
                         - (IF tooManyDeps THEN 10 ELSE 0)
                         - (IF tooManyMusts THEN 10 ELSE 0)
                         - (IF complex THEN 15 ELSE 0)
    IN [isBuildable |-> idea.estimatedHours <= 10 /\ concerns < 3,
        confidence |-> Max(0, Min(100, confidence))]

\* fallbackComplementary: the template idea of each of the first 3 repos
\* that passes validation.
fallbackComplementary(repos) ==
    LET first == Slice(repos, 3)
        ideas == [k \in 1..Len(first) |-> complementaryStrategy(k, first[k])]
    IN SelectSeq(ideas, LAMBDA idea :
                    /\ validateIdea(idea).isBuildable
                    /\ validateIdea(idea).confidence > 50)

\* What the collaborator's text may be: nothing, prose without brackets, a
\* JSON array of items, one JSON object, or brackets around text that is no
\* JSON. An item is a complete idea, an object lacking a required field, or
\* null. A lone object is a complete idea whose only array is coreFeatures,
\* a complete idea with a dependencies array as well, or an object without
\* arrays that lacks a required field.
ItemKinds == {"complete", "lacking", "null"}

GeneratorTexts ==
    {[t |-> "empty", items |-> <<>>], [t |-> "prose", items |-> <<>>],
     [t |-> "malformed", items |-> <<>>]}
    \cup {[t |-> "array", items |-> items] :
             items \in UNION {[1..n -> ItemKinds] : n \in 0..MaxIdeas}}
    \cup {[t |-> "object", items |-> <<kind>>] :
             kind \in {"complete", "twoArrays", "lacking"}}

GeneratorReplies == [how : PiEndings, text : GeneratorTexts]

\* result.output.match(/\[[\s\S]*\]/) followed by JSON.parse: the array of
\* an array text; in the text of one idea object, its coreFeatures array
\* when that is its only array; a SyntaxError for the text from the first [
\* to the last ] of an object with two arrays, and for brackets around no
\* JSON.
arrayMatch(text) ==
    CASE text.t = "array" -> [found |-> TRUE, throws |-> FALSE, items |-> text.items]
      [] text.t = "object" /\ text.items = <<"complete">> ->
            [found |-> TRUE, throws |-> FALSE, items |-> <<"feature">>]
      [] text.t = "object" /\ text.items = <<"twoArrays">> ->
            [found |-> TRUE, throws |-> TRUE, items |-> <<>>]
      [] text.t = "malformed" -> [found |-> TRUE, throws |-> TRUE, items |-> <<>>]
      [] OTHER -> [found |-> FALSE, throws |-> FALSE, items |-> <<>>]

\* idea.name && idea.description && idea.coreFeatures?.length
hasRequiredFields(kind) == kind = "complete"

llmIdea(k) == [origin |-> "llm", item |-> k]

\* generateOriginalIdeas(repos), given how the collaborator call ended and
\* the text it produced: the valid ideas of the reply, else the single idea
\* object, else the template fallback; any exception inside the try block
\* (a rejected call, a SyntaxError, a property read on null) goes to the
\* fallback too.
generateOriginalIdeas(repos, how, text) ==
    LET piResult == piExecute(how, text)
        m == arrayMatch(text)
        valid == {k \in 1..Len(m.items) : hasRequiredFields(m.items[k])}
        readsNull == \E k \in 1..Len(m.items) : m.items[k] = "null"
    IN IF how = "exception" \/ ~piResult.success \/ text.t = "empty"
       THEN fallbackComplementary(repos)
       ELSE IF m.found /\ (m.throws \/ readsNull)
       THEN fallbackComplementary(repos)
       ELSE IF m.found /\ valid # {}
       THEN SelectSeq([k \in 1..Len(m.items) |-> llmIdea(k)],
                      LAMBDA idea : idea.item \in valid)
       ELSE IF text.t = "object" /\ hasRequiredFields(text.items[1])
       THEN <<llmIdea(1)>>
       ELSE fallbackComplementary(repos)

generateCall(repos) ==
    [status |-> "awaiting", repos |-> repos, reply |-> None, result |-> <<>>]

\* The collaborator call settles and generateOriginalIdeas returns.
GenerateSettles ==
    /\ generator.status = "awaiting"
    /\ \E reply \in GeneratorReplies :
          generator' = [generator EXCEPT
                          !.status = "returned",
                          !.reply = Some(reply),
                          !.result = generateOriginalIdeas(generator.repos,
                                                           reply.how, reply.text)]
    /\ UNCHANGED <<jcall, filter, calls, runVars, scout, store, decision,
                   researcher, implementer>>

InitGenerator ==
    /\ generator \in {generateCall(repos) : repos \in TrendingLists}
    /\ decision = NoDecision
    /\ researcher = NoResearcher
    /\ implementer = NoImplementer
    /\ scout = NoScout
    /\ store = NoStore
    /\ filter = NoFilter
    /\ jcall = NoJudgeCall
    /\ calls = <<>>
    /\ RunIdle

NextGenerator == GenerateSettles

SpecGenerator == InitGenerator /\ [][NextGenerator]_vars

\* The reply yields no idea of its own: the call failed, or the text holds
\* no complete idea that can be read.
ReplyUnusable(reply) ==
    \/ reply.how # "done"
    \/ reply.text.t \in {"empty", "prose", "malformed"}
    \/ \A k \in 1..Len(reply.text.items) : reply.text.items[k] # "complete"
    \/ \E k \in 1..Len(reply.text.items) : reply.text.items[k] = "null"

\* C40: generateOriginalIdeas returns at least one idea whenever it is given
\* at least one repo, whatever the collaborator returns: when the reply is
\* unusable the result is the template idea of each of the first 3 repos,
\* none of which validation drops.
C40_GeneratorNeverEmptyHanded ==
    generator.status = "returned" =>
       /\ Len(generator.repos) >= 1 => Len(generator.result) >= 1
       /\ ReplyUnusable(Get(generator.reply)) =>
             /\ Len(generator.result) = Min(3, Len(generator.repos))
             /\ \A k \in 1..Len(generator.result) :
                   /\ generator.result[k].origin = "template"
                   /\ generator.result[k].repo = k

\* C40 witness: four repos, the first with every keyword in its description,
\* and a reply whose ideas all lack required fields: three template ideas.
C40_Witness ==
    /\ generator.status = "returned"
    /\ Len(generator.repos) = 4
    /\ generator.repos[1] = Some(DescriptionWords)
    /\ Get(generator.reply).how = "done"
    /\ Get(generator.reply).text = [t |-> "array", items |-> <<"lacking", "lacking">>]
    /\ Len(generator.result) = 3

\* ------------------------------------------------------------------------
\* ImplementationMaster.implement
\* ------------------------------------------------------------------------

\* most must-have features of an idea
MaxMusts == 2

\* most should-have features of an idea
MaxShoulds == 1

MAX_FIX_ROUNDS == 3

\* The ideas tried: how many must and should features, and whether name is
\* a string (ideas are JSON.parse results cast unchecked; the generator
\* tests only that name is truthy).
ImplementIdeas ==
    [nameIsString : BOOLEAN, musts : 0..MaxMusts, shoulds : 0..MaxShoulds]

implementCall(idea) ==
    [status |-> "running", pos |-> "setup", idea |-> idea,
     coreResults |-> <<>>, round |-> 0, result |-> None]

\* The catch block of implement(): its repoPath argument is computed from
\* idea.name.toLowerCase(), a TypeError when name is no string; otherwise it
\* returns failureResult.
caught(impl) ==
    IF impl.idea.nameIsString
    THEN [impl EXCEPT !.status = "returned", !.pos = "done",
                      !.result = Some([status |-> "failed",
                                       coreFeatures |-> <<>>])]
    ELSE [impl EXCEPT !.status = "threw", !.pos = "done"]

\* Where implement() goes once the loop over the must features is over.
afterMusts(impl) ==
    IF Len(impl.coreResults) >= impl.idea.musts
    THEN [impl EXCEPT !.pos = "fix"] ELSE impl

\* Step 1: initializeProject, which itself reads idea.name.toLowerCase()
\* before its try block; a setup that did not initialize returns
\* failureResult.
ImplSetup ==
    /\ implementer.status = "running"
    /\ implementer.pos = "setup"
    /\ IF ~implementer.idea.nameIsString
       THEN /\ implementer' = caught(implementer)
            /\ Log("caught", <<"initializeProject">>)
       ELSE \E initialized \in BOOLEAN :
               /\ Log("initializeProject", <<initialized>>)
               /\ implementer' =
                     IF initialized
                     THEN afterMusts([implementer EXCEPT !.pos = "musts"])
                     ELSE [implementer EXCEPT
                             !.status = "returned", !.pos = "done",
                             !.result = Some([status |-> "failed",
                                              coreFeatures |-> <<>>])]
    /\ UNCHANGED <<jcall, filter, runVars, scout, store, decision, researcher,
                   generator>>

FeatureOutcomes == {"success", "failure", "exception"}

\* coreResults.push({feature, implemented: result.success, ...})
pushResult(impl, priority, success) ==
    [impl EXCEPT !.coreResults =
        Append(@, [priority |-> priority, implemented |-> success])]

\* Step 2: implementFeature for the next must feature; a rejected call is
\* caught by the catch block of implement().
ImplMust ==
    /\ implementer.status = "running"
    /\ implementer.pos = "musts"
    /\ \E outcome \in FeatureOutcomes :
          /\ Log("implementFeature",
                 <<Len(implementer.coreResults) + 1, "must", outcome>>)
          /\ implementer' =
                IF outcome = "exception" THEN caught(implementer)
                ELSE afterMusts(pushResult(implementer, "must",
                                           outcome = "success"))
    /\ UNCHANGED <<jcall, filter, runVars, scout, store, decision, researcher,
                   generator>>

failedMusts(impl) ==
    {k \in 1..Len(impl.coreResults) :
        /\ impl.coreResults[k].priority = "must"
        /\ ~impl.coreResults[k].implemented}

\* A build that passes after a fix marks every failed must as implemented.
markFixed(impl) ==
    [impl EXCEPT !.coreResults =
        [k \in 1..Len(@) |->
           IF @[k].priority = "must" THEN [@[k] EXCEPT !.implemented = TRUE]
           ELSE @[k]]]

\* The loop position after a fix round whose build still fails.
nextFixRound(impl) ==
    LET r == impl.round + 1
    IN [impl EXCEPT !.round = r,
                    !.pos = IF r < MAX_FIX_ROUNDS THEN "fix" ELSE "shoulds"]

\* Step 2b: one round of the verify-and-fix loop: build; leave the loop when
\* the build passes and no must failed; else fixBuild, build again, and
\* leave the loop with every must marked when that build passes.
ImplFixRound ==
    /\ implementer.status = "running"
    /\ implementer.pos = "fix"
    /\ \E buildOk \in BOOLEAN :
          IF buildOk /\ failedMusts(implementer) = {}
          THEN /\ Log("tryBuild", <<"check", buildOk>>)
               /\ implementer' = [implementer EXCEPT !.pos = "shoulds"]
          ELSE \E fix \in {"settled", "exception"}, postFixOk \in BOOLEAN :
                  IF fix = "exception"
                  THEN /\ calls' = calls \o
                            <<[op |-> "tryBuild", arg |-> <<"check", buildOk>>],
                              [op |-> "fixBuild", arg |-> <<fix>>]>>
                       /\ implementer' = caught(implementer)
                  ELSE /\ calls' = calls \o
                            <<[op |-> "tryBuild", arg |-> <<"check", buildOk>>],
                              [op |-> "fixBuild", arg |-> <<fix>>],
                              [op |-> "tryBuild", arg |-> <<"postFix", postFixOk>>]>>
                       /\ implementer' =
                             IF postFixOk
                             THEN [markFixed(implementer) EXCEPT !.pos = "shoulds"]
                             ELSE nextFixRound(implementer)
    /\ UNCHANGED <<jcall, filter, runVars, scout, store, decision, researcher,
                   generator>>

shouldsDone(impl) ==
    Cardinality({k \in 1..Len(impl.coreResults) :
                    impl.coreResults[k].priority = "should"})

\* Step 3: implementFeature for the next should feature.
ImplShould ==
    /\ implementer.status = "running"
    /\ implementer.pos = "shoulds"
    /\ shouldsDone(implementer) < implementer.idea.shoulds
    /\ \E outcome \in FeatureOutcomes :
          /\ Log("implementFeature",
                 <<Len(implementer.coreResults) + 1, "should", outcome>>)
          /\ implementer' =
                IF outcome = "exception" THEN caught(implementer)
                ELSE pushResult(implementer, "should", outcome = "success")
    /\ UNCHANGED <<jcall, filter, runVars, scout, store, decision, researcher,
                   generator>>

mustHavesDone(impl) ==
    \A k \in 1..Len(impl.coreResults) :
       impl.coreResults[k].priority = "must" => impl.coreResults[k].implemented

\* mustHavesDone && finalBuild.ok ? 'complete' : 'partial'
statusOf(impl, finalOk) ==
    IF mustHavesDone(impl) /\ finalOk THEN "complete" ELSE "partial"

\* Steps 4 to 7: examples and README (a failed write is caught), the final
\* build, the status, the result.
ImplFinish ==
    /\ implementer.status = "running"
    /\ implementer.pos = "shoulds"
    /\ shouldsDone(implementer) >= implementer.idea.shoulds
    /\ \E written \in BOOLEAN, finalOk \in BOOLEAN :
          IF ~written
          THEN /\ Log("caught", <<"writeFile">>)
               /\ implementer' = caught(implementer)
          ELSE /\ Log("tryBuild", <<"final", finalOk>>)
               /\ implementer' =
                     [implementer EXCEPT
                        !.status = "returned", !.pos = "done",
                        !.result = Some([status |-> statusOf(implementer, finalOk),
                                         coreFeatures |-> implementer.coreResults])]
    /\ UNCHANGED <<jcall, filter, runVars, scout, store, decision, researcher,
                   generator>>

InitImplement ==
    /\ implementer \in {implementCall(idea) : idea \in ImplementIdeas}
    /\ decision = NoDecision
    /\ researcher = NoResearcher
    /\ generator = NoGenerator
    /\ scout = NoScout
    /\ store = NoStore
    /\ filter = NoFilter
    /\ jcall = NoJudgeCall
    /\ calls = <<>>
    /\ RunIdle

NextImplement ==
    ImplSetup \/ ImplMust \/ ImplFixRound \/ ImplShould \/ ImplFinish

SpecImplement == InitImplement /\ [][NextImplement]_vars

\* What the log says of the call: setup failed, an exception was caught,
\* how the feature call of must k ended, whether a build passed after a
\* fix, how the final build ended.
SetupFailed ==
    \E k \in 1..Len(calls) :
       calls[k] = [op |-> "initializeProject", arg |-> <<FALSE>>]

ExceptionCaught ==
    \E k \in 1..Len(calls) :
       \/ calls[k].op = "caught"
       \/ calls[k] = [op |-> "fixBuild", arg |-> <<"exception">>]
       \/ calls[k].op = "implementFeature" /\ calls[k].arg[3] = "exception"

MustCallSucceeded(n) ==
    \E k \in 1..Len(calls) :
       calls[k] = [op |-> "implementFeature", arg |-> <<n, "must", "success">>]

BuildPassedAfterFix ==
    \E k \in 1..Len(calls) :
       calls[k] = [op |-> "tryBuild", arg |-> <<"postFix", TRUE>>]

FinalBuildPassed ==
    \E k \in 1..Len(calls) :
       calls[k] = [op |-> "tryBuild", arg |-> <<"final", TRUE>>]

FixRounds == Len(CallsOf(calls, {"fixBuild"}))

\* The status rule on its own, for the calls that return.
StatusRule ==
    implementer.status = "returned" =>
       LET status == Get(implementer.result).status
       IN /\ status = "failed" <=> (SetupFailed \/ ExceptionCaught)
          /\ status # "failed" =>
                (status = "complete" <=>
                    /\ \A n \in 1..implementer.idea.musts :
                          MustCallSucceeded(n) \/ BuildPassedAfterFix
                    /\ FinalBuildPassed)
          /\ status \in {"failed", "complete", "partial"}

\* C32: implement() never throws; its status is 'failed' exactly when setup
\* fails or an exception is caught, otherwise 'complete' exactly when every
\* must feature is marked implemented (its call succeeded, or a build passed
\* after one of at most 3 fix rounds) and the final build passes, otherwise
\* 'partial'.
C32_ImplementStatus ==
    /\ implementer.status # "threw"
    /\ FixRounds <= MAX_FIX_ROUNDS
    /\ StatusRule

\* ------------------------------------------------------------------------
\* ResearchMaster.research and its BrowserAutomation
\* ------------------------------------------------------------------------

\* A ResearchMaster whose research() is called for n ideas in turn, as
\* phase3_ResearchIdeas does: browser is the field of its one
\* BrowserAutomation (a handle is named after the call that launched it),
\* live the browsers running, pos where each call stands, awaited the call
\* the orchestrator is awaiting (0: none).
researchMaster(n) ==
    [status |-> "ready", n |-> n, started |-> 0, awaited |-> 0,
     browser |-> None, live |-> {},
     pos |-> [c \in 1..n |-> "idle"]]

\* A call that settles is no longer awaited.
settled(rm, c) ==
    [rm EXCEPT !.pos[c] = "settled",
               !.awaited = IF @ = c THEN 0 ELSE @]

\* The for-of loop of phase3 calls research() for its next idea, once no
\* call is awaited.
ResearchCall ==
    /\ researcher.status = "ready"
    /\ researcher.awaited = 0
    /\ researcher.started < researcher.n
    /\ LET c == researcher.started + 1
       IN /\ researcher' = [researcher EXCEPT !.started = c, !.awaited = c,
                                              !.pos[c] = "launching"]
          /\ Log("research", <<c>>)
    /\ UNCHANGED <<jcall, filter, runVars, scout, store, decision, implementer,
                   generator>>

\* The TimeBudget of the awaited call expires: the loop moves on, the call
\* keeps running.
ResearchAbandoned ==
    /\ researcher.status = "ready"
    /\ researcher.awaited # 0
    /\ researcher' = [researcher EXCEPT !.awaited = 0]
    /\ Log("research timed out", <<researcher.awaited>>)
    /\ UNCHANGED <<jcall, filter, runVars, scout, store, decision, implementer,
                   generator>>

\* launch(): this.browser = await puppeteer.launch(...). The log entry says
\* which handle the field held before. A launch that fails rejects
\* research() before its try block.
BrowserLaunched ==
    /\ researcher.status = "ready"
    /\ \E c \in 1..researcher.n, launched \in BOOLEAN :
          /\ researcher.pos[c] = "launching"
          /\ IF launched
             THEN /\ researcher' = [researcher EXCEPT !.browser = Some(c),
                                                     !.live = @ \cup {c},
                                                     !.pos[c] = "body"]
                  /\ Log("launch", <<c, researcher.browser>>)
             ELSE /\ researcher' = settled(researcher, c)
                  /\ Log("launch failed", <<c>>)
    /\ UNCHANGED <<jcall, filter, runVars, scout, store, decision, implementer,
                   generator>>

\* The body of research(): newPage() on this.browser, which throws when the
\* field is null or the browser has been closed; either way the call goes
\* on to its finally block.
ResearchBody ==
    /\ researcher.status = "ready"
    /\ \E c \in 1..researcher.n :
          /\ researcher.pos[c] = "body"
          /\ researcher' = [researcher EXCEPT !.pos[c] = "finally"]
          /\ Log("newPage", <<c, researcher.browser>>)
    /\ UNCHANGED <<jcall, filter, runVars, scout, store, decision, implementer,
                   generator>>

\* close(): if (this.browser) await this.browser.close() ...
BrowserClose ==
    /\ researcher.status = "ready"
    /\ \E c \in 1..researcher.n :
          /\ researcher.pos[c] = "finally"
          /\ IF IsSet(researcher.browser)
             THEN /\ researcher' =
                        [researcher EXCEPT !.live = @ \ {Get(researcher.browser)},
                                           !.pos[c] = "closing"]
                  /\ Log("close", <<c, Get(researcher.browser)>>)
             ELSE /\ researcher' = settled(researcher, c)
                  /\ calls' = calls
    /\ UNCHANGED <<jcall, filter, runVars, scout, store, decision, implementer,
                   generator>>

\* ... this.browser = null, and research() settles.
BrowserForgotten ==
    /\ researcher.status = "ready"
    /\ \E c \in 1..researcher.n :
          /\ researcher.pos[c] = "closing"
          /\ researcher' = [settled(researcher, c) EXCEPT !.browser = None]
    /\ UNCHANGED <<jcall, filter, calls, runVars, scout, store, decision,
                   implementer, generator>>

InitResearch ==
    /\ researcher \in {researchMaster(n) : n \in 1..MaxIdeas}
    /\ decision = NoDecision
    /\ implementer = NoImplementer
    /\ generator = NoGenerator
    /\ scout = NoScout
    /\ store = NoStore
    /\ filter = NoFilter
    /\ jcall = NoJudgeCall
    /\ calls = <<>>
    /\ RunIdle

NextResearch ==
    \/ ResearchCall \/ ResearchAbandoned \/ BrowserLaunched \/ ResearchBody
    \/ BrowserClose \/ BrowserForgotten

SpecResearch == InitResearch /\ [][NextResearch]_vars

\* The calls that have not settled.
ResearchRunning ==
    {c \in 1..researcher.n : researcher.pos[c] \notin {"idle", "settled"}}

AllResearchSettled ==
    /\ researcher.status = "ready"
    /\ researcher.started = researcher.n
    /\ ResearchRunning = {}

\* C39: a browser is closed only by the research() call that launched it, no
\* launch replaces the handle of a browser that is still running, and every
\* browser launched is closed once all research calls have settled.
C39_BrowserOwnedByItsCall ==
    /\ \A k \in 1..Len(calls) :
          /\ calls[k].op = "close" => calls[k].arg[2] = calls[k].arg[1]
          /\ calls[k].op = "launch" =>
                \/ calls[k].arg[2] = None
                \/ \E j \in 1..(k - 1) :
                      /\ calls[j].op = "close"
                      /\ calls[j].arg[2] = Get(calls[k].arg[2])
    /\ AllResearchSettled => researcher.live = {}

\* ------------------------------------------------------------------------
\* SpecBudget: one TimeBudget.run call, awaited by phase1_ScoutTrends
\* ------------------------------------------------------------------------

\* largest budget tried, in seconds; the clock runs one second past it
MaxBudget == 2

\* How a promise settled.
Fulfilled(v) == [ok |-> TRUE, value |-> v]

Rejected(e) == [ok |-> FALSE, value |-> e]

settle_LastWins(promise, outcome) == Some(outcome)

\* resolve(v) / reject(e) of a Promise: the first call settles it, every
\* later call is ignored.
settle(promise, outcome) == IF IsSet(promise) THEN promise ELSE Some(outcome)

clearTimeout_Forgets(timer) == timer

\* clearTimeout(timer): a pending timer never fires, a fired one stays fired.
clearTimeout(timer) == IF timer = "armed" THEN "cleared" ELSE timer

timeoutError_NoLabel(label, elapsed, budget) ==
    <<"TimeBudget exceeded", "", [elapsed |-> elapsed, budget |-> budget]>>

\* new Error(`TimeBudget exceeded for "${label}": ${elapsed}s / ${budgetSeconds}s`)
timeoutError(label, elapsed, budget) ==
    <<"TimeBudget exceeded", label, [elapsed |-> elapsed, budget |-> budget]>>

\* TimeBudget.run(label, budgetSeconds, fn) up to the call of fn: the clock
\* starts, the timer is armed, the promise is pending.
runBudget(label, budgetSeconds) ==
    [label |-> label, budget |-> budgetSeconds, now |-> 0, timer |-> "armed",
     firedAt |-> None, fn |-> None, fnAt |-> None, promise |-> None,
     events |-> <<>>]

\* What the promise returned by fn may settle with: a list of trends, or an
\* error of the scout.
FnOutcomes ==
    {Fulfilled(t) : t \in TrendLists} \cup {Rejected(<<"oracle error">>)}

\* Time passes.
BudgetTick ==
    /\ tb.timer # "none"
    /\ tb.now < MaxBudget + 1
    /\ tb' = [tb EXCEPT !.now = @ + 1]
    /\ UNCHANGED <<oracleVars, scout, store, jcall, filter, calls, pc, state, config, round,
                   regen, rIdx,
                   abandoned, snapshot, result>>

\* The setTimeout callback: not before the budget has elapsed.
BudgetTimerFires ==
    /\ tb.timer = "armed"
    /\ tb.now >= tb.budget
    /\ tb' = [tb EXCEPT
                !.timer = "fired",
                !.firedAt = Some(tb.now),
                !.events = Append(@, "timer"),
                !.promise = settle(@, Rejected(timeoutError(tb.label, tb.now,
                                                            tb.budget)))]
    /\ UNCHANGED <<oracleVars, scout, store, jcall, filter, calls, pc, state, config, round,
                   regen, rIdx,
                   abandoned, snapshot, result>>

\* The then / catch callbacks on fn's promise: clear the timer, pass the
\* outcome on.
BudgetFnSettles ==
    /\ tb.timer # "none"
    /\ ~IsSet(tb.fn)
    /\ \E outcome \in FnOutcomes :
          tb' = [tb EXCEPT
                   !.fn = Some(outcome),
                   !.fnAt = Some(tb.now),
                   !.events = Append(@, "fn"),
                   !.timer = clearTimeout(@),
                   !.promise = settle(@, outcome)]
    /\ UNCHANGED <<oracleVars, scout, store, jcall, filter, calls, pc, state, config, round,
                   regen, rIdx,
                   abandoned, snapshot, result>>

\* The await of phase1_ScoutTrends resumes with the settled promise: the
\* rest of the phase, then the checkpoint or the catch block of run().
ScoutDelivered ==
    /\ pc = "await-scout"
    /\ IsSet(tb.promise)
    /\ LET outcome == Get(tb.promise)
       IN IF ~outcome.ok
          THEN /\ Log(IF tb.timer = "fired" THEN "timed out" ELSE "threw",
                      <<state.currentPhase>>)
               /\ Fail(outcome.value)
          ELSE /\ Returned(IF outcome.value = <<>> THEN "empty" ELSE "nonempty")
               /\ IF outcome.value = <<>>
                  THEN Fail(<<"No suitable trends found">>)
                  ELSE Checkpoint([state EXCEPT !.trends = Some(outcome.value)],
                                  "phase2")
    /\ UNCHANGED <<oracleVars, scout, store, tb, jcall, filter, config, round, regen, rIdx, abandoned>>

InitBudget ==
    /\ pc = "await-scout"
    /\ state = [InitialState EXCEPT !.currentPhase = "scout-trends"]
    /\ tb \in {runBudget("scout-trends", b) : b \in 1..MaxBudget}
    /\ calls = <<[op |-> "scoutTrends", arg |-> <<>>]>>
    /\ config \in Configs
    /\ round = 0
    /\ regen = NoRegen
    /\ rIdx = 1
    /\ abandoned = {}
    /\ snapshot = NoSnapshot
    /\ result = None
    /\ scout = NoScout
    /\ store = NoStore
    /\ OraclesIdle
    /\ filter = NoFilter
    /\ jcall = NoJudgeCall

NextBudget ==
    BudgetTick \/ BudgetTimerFires \/ BudgetFnSettles \/ ScoutDelivered

SpecBudget == InitBudget /\ [][NextBudget]_vars

\* ------------------------------------------------------------------------
\* Properties of TimeBudget.run
\* ------------------------------------------------------------------------

\* Which of fn's settlement and the timer came first, if any.
FirstEvent == IF tb.events = <<>> THEN "none" ELSE tb.events[1]

\* What the awaiting phase made of the outcome it was given.
CallerGot(outcome) ==
    IF ~outcome.ok
    THEN /\ IsSet(result)
         /\ Get(result).error = Some(outcome.value)
         /\ state.trends = None
    ELSE IF outcome.value = <<>>
    THEN /\ IsSet(result)
         /\ Get(result).error = Some(<<"No suitable trends found">>)
    ELSE /\ result = None
         /\ state.trends = Some(outcome.value)

\* C13: TimeBudget.run resolves with fn's result when fn fulfils before the
\* deadline, rejects with an error holding the label, the elapsed time and
\* the budget when the timer fires first, and delivers exactly one of the
\* two to its caller in either order of settlement.
C13_BudgetDeliversOneOutcome ==
    /\ (IsSet(tb.fn) /\ Get(tb.fn).ok /\ Get(tb.fnAt) < tb.budget)
           => tb.promise = tb.fn
    /\ FirstEvent = "timer"
           => /\ IsSet(tb.promise)
              /\ ~Get(tb.promise).ok
              /\ Get(tb.promise).value[1] = "TimeBudget exceeded"
              /\ Get(tb.promise).value[2] = tb.label
              /\ Get(tb.promise).value[3] =
                    [elapsed |-> Get(tb.firedAt), budget |-> tb.budget]
              /\ Get(tb.firedAt) >= tb.budget
    /\ IsSet(tb.promise) <=> FirstEvent # "none"
    /\ pc # "await-scout" => (IsSet(tb.promise) /\ CallerGot(Get(tb.promise)))

\* C13 witness: the timer fired one second late while fn was pending, fn
\* fulfilled afterwards, and the caller had got the timeout.
C13_Witness ==
    /\ tb.events = <<"timer", "fn">>
    /\ Get(tb.firedAt) = tb.budget + 1
    /\ Get(tb.fn).ok
    /\ pc = "done"
    /\ Get(result).error =
          Some(<<"TimeBudget exceeded", "scout-trends",
                 [elapsed |-> tb.budget + 1, budget |-> tb.budget]>>)

C15_LateSettlementIgnored ==
    [][(FirstEvent = "timer" /\ tb'.fn # tb.fn)
          => /\ tb'.promise = tb.promise
             /\ state' = state
             /\ result' = result
             /\ pc' = pc]_vars

\* C15 witness: the scout returned two repos after its budget had expired
\* and the run had failed; state.trends is still unset.
C15_Witness ==
    /\ tb.events = <<"timer", "fn">>
    /\ tb.fn = Some(Fulfilled(<<"o/r1", "o/r2">>))
    /\ pc = "done"
    /\ ~Get(result).success
    /\ state.trends = None
    /\ Get(result).state.trends = None

====
